---- MODULE Spec2Model ----
(***************************************************************************)
(* Signal runtime of Mycelial (src/runtime/c): reference-counted signals,  *)
(* ring-buffer mailboxes, routing table, dispatch tables and the tidal     *)
(* cycle scheduler.                                                        *)
(*                                                                         *)
(* Representation of machine integers.  TLC computes with 32-bit signed    *)
(* integers, so a uint32_t value v is represented by its two's-complement  *)
(* residue: v itself below 2^31, v - 2^32 from 2^31 on (4294967295 is -1). *)
(* Inc32/Sub32/And32 are the uint32 operations on that representation.     *)
(* uint16_t values are ordinary naturals reduced modulo U16.               *)
(***************************************************************************)
EXTENDS Integers, Sequences, FiniteSets, TLC

(* ------------------------------ bounds --------------------------------- *)
MaxSignals == 2      \* signals the heap hands out in one run of the model
MaxTraffic == 5      \* enqueue attempts (accepted + rejected) on all mailboxes
MaxHeld    == 2      \* references one signal's callers hold at a time
MaxCycles  == 12     \* tidal cycles the scheduler runs
MaxSockets == 2      \* socket definitions in a topology descriptor
MaxProbes == 2       \* collisions counted before the routing calls stop
MaxLookups == 2      \* dispatch_invoke calls on one dispatch table
MaxAllocs == 3       \* heap_allocate and signal_create calls on one heap

(* ------------------------- program constants --------------------------- *)
U16 == 65536
MAX_PAYLOAD_SIZE == 65536
INT32_MAX == 2147483647
NULL == 0
\* NULL where the model holds the struct itself in place of its address
NULL_STRUCT == [null |-> TRUE]

SIGNAL_OK == 0
SIGNAL_ERR_QUEUE_FULL == 1
SIGNAL_ERR_NULL_POINTER == 3
SIGNAL_ERR_ALLOC_FAILED == 4
SIGNAL_ERR_PAYLOAD_TOO_LARGE == 5

SIGNAL_FLAG_OWNS_PAYLOAD   == "OWNS_PAYLOAD"
SIGNAL_FLAG_HEAP_ALLOCATED == "HEAP_ALLOCATED"
SIGNAL_FLAG_PROCESSED      == "PROCESSED"
SIGNAL_FLAG_BROADCAST      == "BROADCAST"
QUEUE_FLAG_ACTIVE   == "ACTIVE"
QUEUE_FLAG_OVERFLOW == "OVERFLOW"

SigIds   == 1..MaxSignals          \* addresses of signal envelopes
AgentIds == {1, 2}                 \* the agents of the network
Kinds    == {1, 2}                 \* frequency ids in use
Payloads == {5, 15}                \* payload contents (one u32)

(* --------------------------- uint32 arithmetic ------------------------- *)
\* x + 1 on uint32_t (wraps 2^32 - 1 to 0, i.e. -1 to 0, and 2^31 - 1 to 2^31)
Inc32(x) == IF x = INT32_MAX THEN (-INT32_MAX) - 1 ELSE x + 1

\* x - 1 on uint32_t
Dec32(x) == IF x = (-INT32_MAX) - 1 THEN INT32_MAX ELSE x - 1

\* x + n on uint32_t, n a small count
RECURSIVE Add32(_, _)
Add32(x, n) == IF n = 0 THEN x ELSE Add32(Inc32(x), n - 1)

\* a - b on uint32_t, for operands whose difference is below 2^31
Sub32(a, b) == a - b

\* x & m on uint32_t, m a small non-negative mask
RECURSIVE And32(_, _)
And32(x, m) ==
    IF m = 0 THEN 0
    ELSE (x % 2) * (m % 2) + 2 * And32(x \div 2, m \div 2)

\* x | y on small non-negative values
RECURSIVE Or32(_, _)
Or32(x, y) ==
    IF x = 0 THEN y
    ELSE IF y = 0 THEN x
    ELSE (IF x % 2 = 1 \/ y % 2 = 1 THEN 1 ELSE 0) + 2 * Or32(x \div 2, y \div 2)

\* The two 16-bit halves of a uint32_t.
Limbs(x) == [hi |-> (x \div U16) % U16, lo |-> x % U16]

\* The uint32_t of two halves.
FromLimbs(l) ==
    IF l.hi >= U16 \div 2 THEN (l.hi - U16) * U16 + l.lo ELSE l.hi * U16 + l.lo

\* x >> n on the halves, n one of 1, 2, 4, 8, 16
ShiftRight(l, n) ==
    IF n = 16 THEN [hi |-> 0, lo |-> l.hi]
    ELSE [hi |-> l.hi \div (2 ^ n),
          lo |-> (l.lo \div (2 ^ n)) + (l.hi % (2 ^ n)) * (U16 \div (2 ^ n))]

\* x |= x >> n on the halves
Smear(l, n) ==
    LET r == ShiftRight(l, n)
    IN  [hi |-> Or32(l.hi, r.hi), lo |-> Or32(l.lo, r.lo)]

is_power_of_two(x) ==
    /\ x # 0
    /\ And32(Limbs(x).hi, Limbs(Dec32(x)).hi) = 0
    /\ And32(Limbs(x).lo, Limbs(Dec32(x)).lo) = 0

\* a rounding that leaves out the first of the five shifts
next_power_of_two_four_shifts(x) ==
    LET x0 == Limbs(Dec32(x))
        x2 == Smear(x0, 2)
        x3 == Smear(x2, 4)
        x4 == Smear(x3, 8)
        x5 == Smear(x4, 16)
    IN  Inc32(FromLimbs(x5))

next_power_of_two(x) ==
    LET x0 == Limbs(Dec32(x))
        x1 == Smear(x0, 1)
        x2 == Smear(x1, 2)
        x3 == Smear(x2, 4)
        x4 == Smear(x3, 8)
        x5 == Smear(x4, 16)
    IN  Inc32(FromLimbs(x5))

VARIABLES
    signals,        \* envelope at each address: the Signal struct and its storage
    sig_created,    \* envelopes handed out so far (the next one is sig_created + 1)
    held,           \* references each signal's callers hold (creator, consumers)
    ref_age,        \* references envelope 1 had been given when the model starts
    queues,         \* SignalQueue of each agent
    pending,        \* per mailbox: references accepted and not yet returned, oldest first
    queue_age,      \* traffic the mailboxes had seen when the model starts
    routing,        \* the RoutingTable
    dispatch,       \* DispatchTable of each agent
    sched,          \* the Scheduler struct
    pc,             \* where the scheduler's caller is: idle, run_loop, cycle, run_check
    caller,         \* the function that called scheduler_run_cycle
    cycle_i,        \* scheduler_run_cycle: the loop index i
    signals_processed,  \* scheduler_run_cycle: the local counter
    cycle_start,    \* mailbox counts and totals when the cycle in progress began
    burst,          \* cycle_count, mailbox counts and totals after the latest delivery
    last_run,       \* the scheduler's counters when scheduler_run was last entered
    run_i,          \* scheduler_run_cycles: the loop index i
    max_cycles,     \* scheduler_run_cycles: the parameter max_cycles
    cycles_start,   \* the scheduler's counters when scheduler_run_cycles was last entered
    topology,       \* the NetworkTopology descriptor handed to topology_init
    registry2,      \* the AgentRegistry2 topology_init returned (NULL before and on failure)
    blocks,         \* allocations and frees of heap blocks by the latest topology_init
    routes_added,   \* per key: the destinations of the latest routing_add_entry that succeeded
    g_heap,         \* the HeapState
    leases,         \* blocks heap_allocate handed to the caller and not freed yet
    envelope,       \* the Signal signal_create built on the heap (NULL before and after)
    used_mark,      \* heap_get_used() just before that signal_create
    heap_calls,     \* heap_allocate calls and signal_create calls made so far
    destroyed,      \* agents whose mailbox signal_queue_destroy gave back to the heap
    mailbox,        \* the SignalQueue the latest signal_queue_create returned (NULL before)
    requested,      \* the capacity that call was made with
    ret             \* value the last call returned (status, count or address; 0 for void)

sigVars   == <<signals, sig_created, held, ref_age>>
queueVars == <<queues, pending, queue_age>>
schedVars == <<sched, pc, caller, cycle_i, signals_processed>>
obsVars   == <<cycle_start, burst, last_run>>
runCyclesVars == <<run_i, max_cycles, cycles_start>>
topoVars  == <<topology, registry2, blocks>>
heapVars  == <<g_heap, leases, envelope, used_mark, heap_calls, destroyed, mailbox, requested>>
otherVars == <<runCyclesVars, topoVars, routes_added, heapVars>>
vars == <<sigVars, queueVars, routing, dispatch, schedVars, obsVars, otherVars, ret>>

(* ------------------------------- Signal -------------------------------- *)
\* An address nothing was allocated at yet.
BlankSignal ==
    [frequency_id |-> 0, source_agent_id |-> 0, flags |-> {}, ref_count |-> 0,
     payload_ptr |-> NULL, payload_size |-> 0,
     hdr_allocs |-> 0, hdr_frees |-> 0, payload_frees |-> 0]

\* The envelope at s is allocated and not released.
Live(s) == signals[s].hdr_allocs = 1 /\ signals[s].hdr_frees = 0

signal_alloc(sigs, s) ==
    [sigs EXCEPT ![s] = [BlankSignal EXCEPT
        !.flags = {SIGNAL_FLAG_HEAP_ALLOCATED},
        !.ref_count = 1,
        !.hdr_allocs = 1]]

signal_ref_wrapping(sigs, s) ==
    [sigs EXCEPT ![s].ref_count = (@ + 1) % U16]

\* signal_ref leaving the count as it is
signal_ref_skipped(sigs, s) == sigs

signal_ref(sigs, s) ==
    IF s = NULL THEN sigs
    ELSE signal_ref_wrapping(sigs, s)

signal_free(sigs, s) ==
    IF s = NULL THEN sigs
    ELSE
      LET sig == sigs[s]
          rc  == IF sig.ref_count > 0 THEN sig.ref_count - 1 ELSE sig.ref_count
          owns == SIGNAL_FLAG_OWNS_PAYLOAD \in sig.flags /\ sig.payload_ptr # NULL
      IN  IF rc > 0
          THEN [sigs EXCEPT ![s].ref_count = rc]
          ELSE [sigs EXCEPT ![s] = [sig EXCEPT
                  !.ref_count = rc,
                  !.payload_frees = IF owns THEN @ + 1 ELSE @,
                  !.payload_ptr = IF owns THEN NULL ELSE @,
                  !.hdr_frees = IF SIGNAL_FLAG_HEAP_ALLOCATED \in sig.flags
                                THEN @ + 1 ELSE @]]

\* signal_create writing the new envelope at address s; payload = NULL: none.
signal_create(sigs, s, frequency_id, source_agent_id, payload, payload_size) ==
    IF payload_size > MAX_PAYLOAD_SIZE THEN sigs
    ELSE
      LET a == signal_alloc(sigs, s)
          b == [a EXCEPT ![s].frequency_id = frequency_id % U16,
                         ![s].source_agent_id = source_agent_id % U16]
      IN  IF payload # NULL /\ payload_size > 0
          THEN [b EXCEPT ![s].payload_ptr = payload,
                         ![s].payload_size = payload_size,
                         ![s].flags = @ \cup {SIGNAL_FLAG_OWNS_PAYLOAD}]
          ELSE b

signal_mark_processed(sigs, s) ==
    IF s = NULL THEN sigs
    ELSE signal_free([sigs EXCEPT ![s].flags = @ \cup {SIGNAL_FLAG_PROCESSED}], s)

(* ----------------------------- SignalQueue ----------------------------- *)
signal_queue_create(capacity) ==
    LET cap == IF ~is_power_of_two(capacity) THEN next_power_of_two(capacity)
               ELSE capacity
    IN  [buffer |-> [i \in 0..(cap - 1) |-> NULL],
         capacity |-> cap, mask |-> cap - 1,
         head |-> 0, tail |-> 0, count |-> 0,
         total_enqueued |-> 0, total_dequeued |-> 0, dropped_count |-> 0,
         flags |-> {QUEUE_FLAG_ACTIVE}]

\* signal_queue_enqueue keeping tail within the ring
signal_queue_enqueue_masked_tail(q, s) ==
    IF q.count >= q.capacity
    THEN [q EXCEPT !.dropped_count = Inc32(@),
                   !.flags = @ \cup {QUEUE_FLAG_OVERFLOW}]
    ELSE [q EXCEPT !.buffer[And32(q.tail, q.mask)] = s,
                   !.tail = And32(Inc32(@), q.mask),
                   !.count = @ + 1,
                   !.total_enqueued = Inc32(@)]

\* signal_queue_enqueue making room by dropping the oldest signal
signal_queue_enqueue_evicting(q, s) ==
    IF q.count >= q.capacity
    THEN [q EXCEPT !.buffer[And32(q.head, q.mask)] = s,
                   !.head = Inc32(@),
                   !.tail = Inc32(@),
                   !.dropped_count = Inc32(@),
                   !.flags = @ \cup {QUEUE_FLAG_OVERFLOW}]
    ELSE [q EXCEPT !.buffer[And32(q.tail, q.mask)] = s,
                   !.tail = Inc32(@),
                   !.count = @ + 1,
                   !.total_enqueued = Inc32(@)]

\* The queue after signal_queue_enqueue(queue, s), s not NULL.
signal_queue_enqueue(q, s) ==
    IF q.count >= q.capacity
    THEN [q EXCEPT !.dropped_count = Inc32(@),
                   !.flags = @ \cup {QUEUE_FLAG_OVERFLOW}]
    ELSE [q EXCEPT !.buffer[And32(q.tail, q.mask)] = s,
                   !.tail = Inc32(@),
                   !.count = @ + 1,
                   !.total_enqueued = Inc32(@)]

\* What signal_queue_enqueue(queue, s) returns.
signal_queue_enqueue_ret(q, s) ==
    IF q.count >= q.capacity THEN SIGNAL_ERR_QUEUE_FULL ELSE SIGNAL_OK

\* signal_queue_dequeue handing out the newest signal
signal_queue_dequeue_newest(q) ==
    IF q.count = 0 THEN NULL ELSE q.buffer[And32(Dec32(q.tail), q.mask)]

\* What signal_queue_dequeue(queue) returns.
signal_queue_dequeue_ret(q) ==
    IF q.count = 0 THEN NULL ELSE q.buffer[And32(q.head, q.mask)]

\* signal_queue_dequeue forgetting its lifetime counter
signal_queue_dequeue_uncounted(q) ==
    IF q.count = 0 THEN q
    ELSE [q EXCEPT !.buffer[And32(q.head, q.mask)] = NULL,
                   !.head = Inc32(@),
                   !.count = @ - 1]

\* signal_queue_dequeue counting the signal it hands out as dropped
signal_queue_dequeue_counting_drop(q) ==
    IF q.count = 0 THEN q
    ELSE [q EXCEPT !.buffer[And32(q.head, q.mask)] = NULL,
                   !.head = Inc32(@),
                   !.count = @ - 1,
                   !.dropped_count = Inc32(@)]

\* The queue after signal_queue_dequeue(queue).
signal_queue_dequeue(q) ==
    IF q.count = 0 THEN q
    ELSE [q EXCEPT !.buffer[And32(q.head, q.mask)] = NULL,
                   !.head = Inc32(@),
                   !.count = @ - 1,
                   !.total_dequeued = Inc32(@)]

signal_queue_peek(q) ==
    IF q.count = 0 THEN NULL ELSE q.buffer[And32(q.head, q.mask)]

\* a destroy that empties the mailbox without releasing what it held
RECURSIVE signal_queue_destroy_dropping(_, _)
signal_queue_destroy_dropping(st, a) ==
    IF st.queues[a].count = 0 THEN st
    ELSE signal_queue_destroy_dropping(
            [st EXCEPT !.queues[a] = signal_queue_dequeue(@),
                       !.pending[a] = Tail(@)], a)

\* signal_queue_destroy of agent a's mailbox: the loop that dequeues and
\* frees until the mailbox is empty.  st holds signals, queues and pending.
RECURSIVE signal_queue_destroy(_, _)
signal_queue_destroy(st, a) ==
    IF st.queues[a].count = 0 THEN st
    ELSE signal_queue_destroy(
            [st EXCEPT !.queues[a] = signal_queue_dequeue(@),
                       !.pending[a] = Tail(@),
                       !.signals = signal_free(@, signal_queue_dequeue_ret(st.queues[a]))],
            a)

(* ---------------------------- RoutingTable ----------------------------- *)
\* A 32-bit hash value is kept as two 16-bit halves, [hi, lo].
FNV_OFFSET_HI == 33052
FNV_OFFSET_LO == 40389
FNV_PRIME_HI  == 256
FNV_PRIME_LO  == 403

\* x ^ y on 16-bit values
RECURSIVE Xor16(_, _)
Xor16(x, y) ==
    IF x = 0 THEN y
    ELSE IF y = 0 THEN x
    ELSE (((x % 2) + (y % 2)) % 2) + 2 * Xor16(x \div 2, y \div 2)

\* h ^ v, v a non-negative value
HashXor(h, v) == [hi |-> Xor16(h.hi, v \div U16), lo |-> Xor16(h.lo, v % U16)]

\* h * 16777619 modulo 2^32
HashMul(h) ==
    LET low == h.lo * FNV_PRIME_LO
    IN  [hi |-> (h.hi * FNV_PRIME_LO + h.lo * FNV_PRIME_HI + low \div U16) % U16,
         lo |-> low % U16]

fnv1a_hash(agent_id, freq_id) ==
    LET h0 == [hi |-> FNV_OFFSET_HI, lo |-> FNV_OFFSET_LO]
        h1 == HashMul(HashXor(h0, agent_id))
    IN  HashMul(HashXor(h1, freq_id))

EmptyEntry ==
    [source_agent_id |-> 0, frequency_id |-> 0, dest_count |-> 0, flags |-> 0,
     dest_agent_ids |-> <<>>, dest_queues |-> <<>>]

routing_table_create(capacity) ==
    LET cap == IF ~is_power_of_two(capacity) THEN next_power_of_two(capacity)
               ELSE capacity
    IN  [entries |-> [i \in 0..(cap - 1) |-> EmptyEntry],
         capacity |-> cap, mask |-> cap - 1,
         entry_count |-> 0, collision_count |-> 0]

\* a probe loop that compares the key before it tests for an empty slot
RECURSIVE find_slot_from_keyed(_, _, _, _, _, _)
find_slot_from_keyed(table, source_agent_id, frequency_id, index, start, n) ==
    LET entry == table.entries[index]
        next  == And32(index + 1, table.mask)
    IN  IF entry.source_agent_id = source_agent_id
           /\ entry.frequency_id = frequency_id
        THEN [index |-> index, found |-> TRUE, collisions |-> n]
        ELSE IF entry.source_agent_id = 0
        THEN [index |-> index, found |-> FALSE, collisions |-> n]
        ELSE IF next = start
        THEN [index |-> next, found |-> FALSE, collisions |-> n + 1]
        ELSE find_slot_from_keyed(table, source_agent_id, frequency_id, next, start, n + 1)

\* The probe loop of find_slot from slot index on; n counts the collisions.
RECURSIVE find_slot_from(_, _, _, _, _, _)
find_slot_from(table, source_agent_id, frequency_id, index, start, n) ==
    LET entry == table.entries[index]
        next  == And32(index + 1, table.mask)
    IN  IF entry.source_agent_id = 0
        THEN [index |-> index, found |-> FALSE, collisions |-> n]
        ELSE IF entry.source_agent_id = source_agent_id
                /\ entry.frequency_id = frequency_id
        THEN [index |-> index, found |-> TRUE, collisions |-> n]
        ELSE IF next = start
        THEN [index |-> next, found |-> FALSE, collisions |-> n + 1]
        ELSE find_slot_from(table, source_agent_id, frequency_id, next, start, n + 1)

\* a find_slot that looks at the home slot of the key only
find_slot_home_only(table, source_agent_id, frequency_id) ==
    LET index == And32(fnv1a_hash(source_agent_id, frequency_id).lo, table.mask)
        entry == table.entries[index]
    IN  [index |-> index,
         found |-> entry.source_agent_id = source_agent_id
                   /\ entry.frequency_id = frequency_id,
         collisions |-> 0]

\* find_slot: the slot, whether the key is there, and the collisions counted.
find_slot(table, source_agent_id, frequency_id) ==
    LET index == And32(fnv1a_hash(source_agent_id, frequency_id).lo, table.mask)
    IN  find_slot_from(table, source_agent_id, frequency_id, index, index, 0)

\* The table once find_slot has counted the collisions of a probe.
Probed(table, slot) ==
    [table EXCEPT !.collision_count = Add32(@, slot.collisions)]

\* What routing_add_entry returns (allocation never fails here).
routing_add_entry_ret(table, source_agent_id, frequency_id, dest_agent_ids) ==
    IF Len(dest_agent_ids) = 0 THEN SIGNAL_ERR_NULL_POINTER
    ELSE IF table.entry_count >= table.capacity THEN SIGNAL_ERR_ALLOC_FAILED
    ELSE SIGNAL_OK

\* The table after routing_add_entry (allocation never fails here).
routing_add_entry(table, source_agent_id, frequency_id, dest_agent_ids) ==
    IF Len(dest_agent_ids) = 0 THEN table
    ELSE IF table.entry_count >= table.capacity THEN table
    ELSE
      LET slot == find_slot(table, source_agent_id, frequency_id)
          entry == [source_agent_id |-> source_agent_id,
                    frequency_id |-> frequency_id,
                    dest_count |-> Len(dest_agent_ids),
                    flags |-> 0,
                    dest_agent_ids |-> dest_agent_ids,
                    dest_queues |-> [j \in 1..Len(dest_agent_ids) |-> NULL]]
      IN  [Probed(table, slot) EXCEPT
              !.entries[slot.index] = entry,
              !.entry_count = IF slot.found THEN @ ELSE @ + 1]

(* ---------------------------- AgentRegistry ---------------------------- *)
agent_registry_create(capacity) ==
    [agents |-> [i \in 0..(capacity - 1) |-> NULL], count |-> 0, capacity |-> capacity]

\* An agent is named by its id; its mailbox is queues[id].
agent_registry_add(registry, agent_id) ==
    IF agent_id >= registry.capacity THEN registry
    ELSE [registry EXCEPT !.agents[agent_id] = agent_id,
                          !.count = IF agent_id >= @ THEN agent_id + 1 ELSE @]

agent_registry_get(registry, agent_id) ==
    IF agent_id >= registry.capacity THEN NULL ELSE registry.agents[agent_id]

\* The mailbox (named by its owner) of agent_id, or NULL.
agent_get_queue(registry, agent_id) ==
    agent_registry_get(registry, agent_id)

\* The registry of the network: agents 1 and 2 (slot 0 stays empty).
Registry ==
    agent_registry_add(agent_registry_add(agent_registry_create(3), 1), 2)

\* a resolve that clears a pointer it finds cached
routing_resolve_queues_toggling(table, registry) ==
    [table EXCEPT !.entries = [i \in DOMAIN table.entries |->
        IF table.entries[i].source_agent_id = 0 THEN table.entries[i]
        ELSE [table.entries[i] EXCEPT !.dest_queues =
                [j \in 1..table.entries[i].dest_count |->
                    IF table.entries[i].dest_queues[j] # NULL THEN NULL
                    ELSE agent_get_queue(registry, table.entries[i].dest_agent_ids[j])]]]]

routing_resolve_queues(table, registry) ==
    [table EXCEPT !.entries = [i \in DOMAIN table.entries |->
        IF table.entries[i].source_agent_id = 0 THEN table.entries[i]
        ELSE [table.entries[i] EXCEPT !.dest_queues =
                [j \in 1..table.entries[i].dest_count |->
                    agent_get_queue(registry, table.entries[i].dest_agent_ids[j])]]]]

\* What routing_lookup returns: the destination ids, <<>> for NULL.
routing_lookup(table, source_agent_id, frequency_id) ==
    LET slot == find_slot(table, source_agent_id, frequency_id)
    IN  IF slot.found THEN table.entries[slot.index].dest_agent_ids ELSE <<>>

\* What routing_lookup stores in *out_count.
routing_lookup_count(table, source_agent_id, frequency_id) ==
    LET slot == find_slot(table, source_agent_id, frequency_id)
    IN  IF slot.found THEN table.entries[slot.index].dest_count ELSE 0

\* a loop that gives up at the first mailbox that rejects the signal
RECURSIVE broadcast_from_stopping(_, _, _, _, _)
broadcast_from_stopping(st, s, agents, e, j) ==
    IF j > st.routing.entries[e].dest_count THEN st
    ELSE
      LET queue == st.routing.entries[e].dest_agent_ids[j]
          result == signal_queue_enqueue_ret(st.queues[queue], s)
      IN  IF result # SIGNAL_OK
          THEN [st EXCEPT !.queues[queue] = signal_queue_enqueue(@, s)]
          ELSE broadcast_from_stopping(
                 [st EXCEPT !.queues[queue] = signal_queue_enqueue(@, s),
                            !.signals = signal_ref(@, s),
                            !.pending[queue] = Append(@, s),
                            !.delivered = @ + 1],
                 s, agents, e, j + 1)

\* The loop of routing_broadcast from destination j of entry e on.  st holds
\* what the call works on: signals, queues, routing, pending and the local
\* delivered.
RECURSIVE broadcast_from(_, _, _, _, _)
broadcast_from(st, s, agents, e, j) ==
    IF j > st.routing.entries[e].dest_count THEN st
    ELSE
      LET entry  == st.routing.entries[e]
          cached == entry.dest_queues[j]
          queue  == IF cached = NULL
                    THEN agent_get_queue(agents, entry.dest_agent_ids[j])
                    ELSE cached
          st1 == [st EXCEPT !.routing.entries[e].dest_queues[j] = queue]
          result == signal_queue_enqueue_ret(st1.queues[queue], s)
          st2 == IF queue = NULL THEN st1
                 ELSE [st1 EXCEPT
                    !.queues[queue] = signal_queue_enqueue(@, s),
                    !.signals = IF result = SIGNAL_OK THEN signal_ref(@, s) ELSE @,
                    !.pending[queue] = IF result = SIGNAL_OK THEN Append(@, s) ELSE @,
                    !.delivered = IF result = SIGNAL_OK THEN @ + 1 ELSE @]
      IN  broadcast_from(st2, s, agents, e, j + 1)

\* a broadcast that serves the last destination of the route only
routing_broadcast_last_only(st, s, agents) ==
    LET sig  == st.signals[s]
        slot == find_slot(st.routing, sig.source_agent_id, sig.frequency_id)
        st0  == [st EXCEPT !.routing = Probed(@, slot), !.delivered = 0]
    IN  IF ~slot.found THEN st0
        ELSE broadcast_from(st0, s, agents, slot.index,
                            st0.routing.entries[slot.index].dest_count)

\* routing_broadcast(table, signal, agents); st.delivered is what it returns.
routing_broadcast(st, s, agents) ==
    LET sig  == st.signals[s]
        slot == find_slot(st.routing, sig.source_agent_id, sig.frequency_id)
        st0  == [st EXCEPT !.routing = Probed(@, slot), !.delivered = 0]
    IN  IF ~slot.found THEN st0
        ELSE
          LET st1 == broadcast_from(st0, s, agents, slot.index, 1)
          IN  IF st1.routing.entries[slot.index].dest_count > 1
              THEN [st1 EXCEPT !.signals[s].flags = @ \cup {SIGNAL_FLAG_BROADCAST}]
              ELSE st1

\* an emission that keeps the creator's reference
emit_signal_unreleased(st, s, agents, frequency_id, source_agent_id, payload, payload_size) ==
    routing_broadcast(
        [st EXCEPT !.signals = signal_create(@, s, frequency_id, source_agent_id,
                                             payload, payload_size)],
        s, agents)

\* emit_signal with the new envelope at address s; st.delivered is what it
\* returns.
emit_signal(st, s, agents, frequency_id, source_agent_id, payload, payload_size) ==
    IF payload_size > MAX_PAYLOAD_SIZE
    THEN [st EXCEPT !.delivered = -SIGNAL_ERR_ALLOC_FAILED]
    ELSE
      LET created == [st EXCEPT !.signals =
                        signal_create(@, s, frequency_id, source_agent_id,
                                      payload, payload_size)]
          routed  == routing_broadcast(created, s, agents)
      IN  [routed EXCEPT !.signals = signal_free(@, s)]

(* ---------------------------- DispatchTable ---------------------------- *)
DISPATCH_FLAG_ACTIVE    == "ACTIVE"
DISPATCH_FLAG_HAS_GUARD == "HAS_GUARD"
DISPATCH_OK                 == "DISPATCH_OK"
DISPATCH_ERR_NULL_POINTER   == "DISPATCH_ERR_NULL_POINTER"
DISPATCH_ERR_NO_HANDLER     == "DISPATCH_ERR_NO_HANDLER"
DISPATCH_ERR_ALLOC_FAILED   == "DISPATCH_ERR_ALLOC_FAILED"
DISPATCH_ERR_GUARD_FAILED   == "DISPATCH_ERR_GUARD_FAILED"
DISPATCH_ERR_HANDLER_FAILED == "DISPATCH_ERR_HANDLER_FAILED"

\* Handlers and guards are functions of the program that uses the runtime;
\* "NULL" is the null function pointer.  A signal's payload is one value,
\* kept in payload_ptr (NULL: no payload).
FN_NULL == "NULL"
handle_increment == "handle_increment"
handle_reset   == "handle_reset"
handle_guarded == "handle_guarded"
handle_default == "handle_default"
guard_value_gt_10 == "guard_value_gt_10"

\* The agent's state block as the program hands it to dispatch_set_state.
TestAgentState ==
    [count |-> 0, last_value |-> 0, handler_calls |-> 0, guard_passes |-> 0,
     guard_fails |-> 0]

\* What calling handler fn on (agent_state, sig) leaves in agent_state.
handler_state(fn, agent_state, sig) ==
    IF fn = handle_increment
    THEN IF sig.payload_ptr = NULL THEN agent_state
         ELSE [agent_state EXCEPT !.count = @ + sig.payload_ptr,
                                  !.last_value = sig.payload_ptr,
                                  !.handler_calls = @ + 1]
    ELSE IF fn = handle_reset
    THEN [agent_state EXCEPT !.count = 0, !.last_value = 0, !.handler_calls = @ + 1]
    ELSE IF fn = handle_guarded
    THEN IF sig.payload_ptr = NULL THEN agent_state
         ELSE [agent_state EXCEPT !.count = sig.payload_ptr,
                                  !.guard_passes = @ + 1,
                                  !.handler_calls = @ + 1]
    ELSE [agent_state EXCEPT !.handler_calls = @ + 1]

\* What handler fn returns on sig.
handler_result(fn, sig) ==
    IF fn \in {handle_increment, handle_guarded} /\ sig.payload_ptr = NULL
    THEN -1
    ELSE 0

\* What guard fn returns on signal sig: 1 iff its payload value exceeds 10.
guard_result(fn, sig) ==
    IF sig.payload_ptr = NULL THEN 0
    ELSE IF sig.payload_ptr > 10 THEN 1 ELSE 0

EmptyDispatchEntry ==
    [frequency_id |-> 0, flags |-> {}, handler |-> FN_NULL, guard |-> FN_NULL]

dispatch_table_create(capacity, agent_id) ==
    [entries |-> [k \in 0..(capacity - 1) |-> EmptyDispatchEntry],
     entry_count |-> 0, capacity |-> capacity,
     default_handler |-> FN_NULL, agent_state |-> NULL_STRUCT, agent_id |-> agent_id,
     lookup_count |-> 0, hit_count |-> 0, miss_count |-> 0]

\* Index of the first active entry for frequency_id, -1 if there is none.
dispatch_lookup_entry(table, frequency_id) ==
    LET hits == {k \in 0..(table.entry_count - 1) :
                    /\ DISPATCH_FLAG_ACTIVE \in table.entries[k].flags
                    /\ table.entries[k].frequency_id = frequency_id}
    IN  IF hits = {} THEN -1
        ELSE CHOOSE k \in hits : \A m \in hits : k <= m

\* a registration that always takes a new entry
dispatch_register_appending(table, frequency_id, handler, guard) ==
    LET guard_flag == IF guard # FN_NULL THEN {DISPATCH_FLAG_HAS_GUARD} ELSE {}
    IN  IF table.entry_count >= table.capacity THEN table
        ELSE [table EXCEPT
                !.entries[table.entry_count] =
                    [frequency_id |-> frequency_id,
                     flags |-> {DISPATCH_FLAG_ACTIVE} \cup guard_flag,
                     handler |-> handler, guard |-> guard],
                !.entry_count = @ + 1]

\* The table after dispatch_register, handler not NULL.
dispatch_register(table, frequency_id, handler, guard) ==
    LET k == dispatch_lookup_entry(table, frequency_id)
        guard_flag == IF guard # FN_NULL THEN {DISPATCH_FLAG_HAS_GUARD} ELSE {}
    IN  IF k >= 0
        THEN [table EXCEPT !.entries[k].handler = handler,
                           !.entries[k].guard = guard,
                           !.entries[k].flags =
                               (@ \ {DISPATCH_FLAG_HAS_GUARD}) \cup guard_flag]
        ELSE IF table.entry_count >= table.capacity THEN table
        ELSE [table EXCEPT
                !.entries[table.entry_count] =
                    [frequency_id |-> frequency_id,
                     flags |-> {DISPATCH_FLAG_ACTIVE} \cup guard_flag,
                     handler |-> handler, guard |-> guard],
                !.entry_count = @ + 1]

\* an unregistration that gives the last slot back
dispatch_unregister_releasing(table, frequency_id) ==
    LET k == dispatch_lookup_entry(table, frequency_id)
    IN  IF k >= 0
        THEN [table EXCEPT !.entries[k].flags = @ \ {DISPATCH_FLAG_ACTIVE},
                           !.entry_count = IF k = @ - 1 THEN @ - 1 ELSE @]
        ELSE table

\* The table after dispatch_unregister.
dispatch_unregister(table, frequency_id) ==
    LET k == dispatch_lookup_entry(table, frequency_id)
    IN  IF k >= 0
        THEN [table EXCEPT !.entries[k].flags = @ \ {DISPATCH_FLAG_ACTIVE}]
        ELSE table

\* What dispatch_unregister returns.
dispatch_unregister_ret(table, frequency_id) ==
    IF dispatch_lookup_entry(table, frequency_id) >= 0
    THEN DISPATCH_OK ELSE DISPATCH_ERR_NO_HANDLER

\* What dispatch_register returns, handler not NULL.
dispatch_register_ret(table, frequency_id) ==
    IF dispatch_lookup_entry(table, frequency_id) >= 0 THEN DISPATCH_OK
    ELSE IF table.entry_count >= table.capacity THEN DISPATCH_ERR_ALLOC_FAILED
    ELSE DISPATCH_OK

dispatch_set_default(table, handler) ==
    [table EXCEPT !.default_handler = handler]

dispatch_set_state(table, state) ==
    [table EXCEPT !.agent_state = state]

\* an invocation that takes a miss for success and calls nothing
dispatch_invoke_silent_miss(table, sig) ==
    LET counted == [table EXCEPT !.lookup_count = Inc32(@)]
        k == dispatch_lookup_entry(table, sig.frequency_id)
    IN  IF k < 0
        THEN [table |-> counted, ret |-> DISPATCH_OK]
        ELSE [table |-> [counted EXCEPT
                           !.hit_count = Inc32(@),
                           !.agent_state =
                               handler_state(table.entries[k].handler, @, sig)],
              ret |-> IF handler_result(table.entries[k].handler, sig) # 0
                      THEN DISPATCH_ERR_HANDLER_FAILED ELSE DISPATCH_OK]

\* an invocation that does not consult the guard
dispatch_invoke_unguarded(table, sig) ==
    LET counted == [table EXCEPT !.lookup_count = Inc32(@)]
        k == dispatch_lookup_entry(table, sig.frequency_id)
    IN  IF k < 0
        THEN [table |-> [counted EXCEPT !.miss_count = Inc32(@)],
              ret |-> DISPATCH_ERR_NO_HANDLER]
        ELSE [table |-> [counted EXCEPT
                           !.hit_count = Inc32(@),
                           !.agent_state =
                               handler_state(table.entries[k].handler, @, sig)],
              ret |-> IF handler_result(table.entries[k].handler, sig) # 0
                      THEN DISPATCH_ERR_HANDLER_FAILED ELSE DISPATCH_OK]

\* dispatch_invoke_with_state on the table's own state block: the table
\* afterwards and the value returned.
dispatch_invoke(table, sig) ==
    LET counted == [table EXCEPT !.lookup_count = Inc32(@)]
        k == dispatch_lookup_entry(table, sig.frequency_id)
    IN  IF k < 0
        THEN LET missed == [counted EXCEPT !.miss_count = Inc32(@)]
             IN  IF table.default_handler # FN_NULL
                 THEN [table |-> [missed EXCEPT !.agent_state =
                                    handler_state(table.default_handler, @, sig)],
                       ret |-> IF handler_result(table.default_handler, sig) # 0
                               THEN DISPATCH_ERR_HANDLER_FAILED ELSE DISPATCH_OK]
                 ELSE [table |-> missed, ret |-> DISPATCH_ERR_NO_HANDLER]
        ELSE LET hit == [counted EXCEPT !.hit_count = Inc32(@)]
                 entry == table.entries[k]
             IN  IF /\ DISPATCH_FLAG_HAS_GUARD \in entry.flags
                    /\ entry.guard # FN_NULL
                    /\ guard_result(entry.guard, sig) = 0
                 THEN [table |-> hit, ret |-> DISPATCH_ERR_GUARD_FAILED]
                 ELSE [table |-> [hit EXCEPT !.agent_state =
                                    handler_state(entry.handler, @, sig)],
                       ret |-> IF handler_result(entry.handler, sig) # 0
                               THEN DISPATCH_ERR_HANDLER_FAILED ELSE DISPATCH_OK]

\* The loop of dispatch_process_batch: st holds signals, queues, pending,
\* the agent's table and the local processed; a is the agent whose queue it is.
RECURSIVE dispatch_process_batch(_, _, _)
dispatch_process_batch(st, a, max_signals) ==
    LET s == signal_queue_dequeue_ret(st.queues[a])
    IN  IF st.processed >= max_signals \/ s = NULL THEN st
        ELSE dispatch_process_batch(
               [st EXCEPT !.queues[a] = signal_queue_dequeue(@),
                          !.pending[a] = Tail(@),
                          !.table = dispatch_invoke(@, st.signals[s]).table,
                          !.signals = signal_free(@, s),
                          !.processed = @ + 1],
               a, max_signals)

\* The loop of dispatch_process_queue, on the same st.
RECURSIVE dispatch_process_queue(_, _)
dispatch_process_queue(st, a) ==
    LET s == signal_queue_dequeue_ret(st.queues[a])
    IN  IF s = NULL THEN st
        ELSE dispatch_process_queue(
               [st EXCEPT !.queues[a] = signal_queue_dequeue(@),
                          !.pending[a] = Tail(@),
                          !.table = dispatch_invoke(@, st.signals[s]).table,
                          !.signals = signal_free(@, s),
                          !.processed = @ + 1],
               a)

(* ------------------------ AgentRegistry2, topology --------------------- *)
\* The element of a one-element set: Once({e(x) : x \in {v}}) is e(v) with v
\* computed once.
Once(S) == CHOOSE r \in S : TRUE

\* The NULL char pointer; a name is the string it points to.
NULL_NAME == "(null)"

AGENT_FLAG_ACTIVE       == "ACTIVE"
AGENT_FLAG_INITIALIZED  == "INITIALIZED"
AGENT_FLAG_HAS_HANDLERS == "HAS_HANDLERS"
TOPOLOGY_OK                  == "TOPOLOGY_OK"
TOPOLOGY_ERR_CAPACITY        == "TOPOLOGY_ERR_CAPACITY"
TOPOLOGY_ERR_AGENT_EXISTS    == "TOPOLOGY_ERR_AGENT_EXISTS"
TOPOLOGY_ERR_AGENT_NOT_FOUND == "TOPOLOGY_ERR_AGENT_NOT_FOUND"
TOPOLOGY_ERR_ALLOC_FAILED    == "TOPOLOGY_ERR_ALLOC_FAILED"

\* A zeroed AgentInfo slot.  An agent's mailbox and dispatch table are named
\* by the id of their owner.
EmptyAgentInfo ==
    [agent_id |-> 0, name |-> NULL_NAME, state_size |-> 0, queue |-> NULL,
     dispatch |-> NULL, flags |-> {}, signal_count |-> 0, queue_capacity |-> 0]

\* The heap blocks of a network, named by what they hold and by the agent id
\* or the routing slot they belong to (0 for the one-off blocks).
BlockKinds ==
    {"registry", "agents", "agent_names", "name", "state", "queue", "dispatch",
     "routing", "entries", "dest_agent_ids", "dest_queues"}
Blocks == BlockKinds \X (0..(4 * MaxSockets))

\* How often each block was handed out by heap_allocate and given back with
\* heap_free; a mailbox or dispatch table counts as one block with its array.
NoBlocks == [allocs |-> [b \in Blocks |-> 0], frees |-> [b \in Blocks |-> 0]]
Allocated(heap, bs) ==
    [heap EXCEPT !.allocs = [b \in Blocks |-> @[b] + IF b \in bs THEN 1 ELSE 0]]
Released(heap, bs) ==
    [heap EXCEPT !.frees = [b \in Blocks |-> @[b] + IF b \in bs THEN 1 ELSE 0]]

\* registry_create; slot agent_id of agents is the code's agents[agent_id - 1].
registry_create(capacity) ==
    LET cap == IF capacity = 0 THEN 64 ELSE capacity
    IN  [agents |-> [i \in 1..cap |-> EmptyAgentInfo],
         agent_names |-> [i \in 1..cap |-> NULL_NAME],
         agent_count |-> 0, capacity |-> cap, routing |-> NULL]

\* a check that lets a live slot be registered again
registry_register_ret_overwriting(registry, agent_id) ==
    IF agent_id = 0 \/ agent_id > registry.capacity THEN TOPOLOGY_ERR_CAPACITY
    ELSE TOPOLOGY_OK

\* What registry_register returns.
registry_register_ret(registry, agent_id) ==
    IF agent_id = 0 \/ agent_id > registry.capacity THEN TOPOLOGY_ERR_CAPACITY
    ELSE IF AGENT_FLAG_ACTIVE \in registry.agents[agent_id].flags
    THEN TOPOLOGY_ERR_AGENT_EXISTS
    ELSE TOPOLOGY_OK

\* The registry after registry_register.
registry_register(registry, agent_id, name, state, state_size, queue, dispatch_table, capacity) ==
    IF registry_register_ret(registry, agent_id) # TOPOLOGY_OK THEN registry
    ELSE [registry EXCEPT
            !.agent_names[agent_id] = name,
            !.agents[agent_id] =
                [agent_id |-> agent_id, name |-> name, state_size |-> state_size,
                 queue |-> queue, dispatch |-> dispatch_table,
                 flags |-> {AGENT_FLAG_ACTIVE}
                           \cup (IF state # NULL_STRUCT THEN {AGENT_FLAG_INITIALIZED} ELSE {})
                           \cup (IF dispatch_table # NULL
                                 THEN {AGENT_FLAG_HAS_HANDLERS} ELSE {}),
                 signal_count |-> 0,
                 queue_capacity |-> IF queue # NULL THEN capacity ELSE 0],
            !.agent_count = IF agent_id > @ THEN agent_id ELSE @]

\* registry_get_agent: the agent (its id), or NULL.
registry_get_agent(registry, agent_id) ==
    IF agent_id = 0 \/ agent_id > registry.capacity THEN NULL
    ELSE IF AGENT_FLAG_ACTIVE \notin registry.agents[agent_id].flags THEN NULL
    ELSE agent_id

\* topology_init_agent for an AgentInfo that brings no state, mailbox or
\* table of its own.  net holds the registry, the mailboxes and the dispatch
\* tables created so far, and ret, what the call returns.
topology_init_agent(net, info) ==
    LET state == IF info.state_size > 0 THEN TestAgentState ELSE NULL_STRUCT
        capacity == IF info.queue_capacity = 0 THEN 256 ELSE info.queue_capacity
        queue == signal_queue_create(capacity)
        table == dispatch_set_state(dispatch_table_create(16, info.agent_id), state)
        result == registry_register_ret(net.registry, info.agent_id)
        mine == {<<"queue", info.agent_id>>, <<"dispatch", info.agent_id>>}
                \cup (IF info.state_size > 0 THEN {<<"state", info.agent_id>>} ELSE {})
    IN  IF result # TOPOLOGY_OK
        THEN [net EXCEPT !.ret = result,
                         !.heap = Released(Allocated(@, mine), mine)]
        ELSE [net EXCEPT
                !.heap = Allocated(@, mine \cup
                            (IF info.name # NULL_NAME
                             THEN {<<"name", info.agent_id>>} ELSE {})),
                !.registry = registry_register(@, info.agent_id, info.name, state,
                                               info.state_size, info.agent_id,
                                               info.agent_id, queue.capacity),
                !.queues = [a \in (DOMAIN @) \cup {info.agent_id} |->
                              IF a = info.agent_id THEN queue ELSE @[a]],
                !.dispatch = [a \in (DOMAIN @) \cup {info.agent_id} |->
                              IF a = info.agent_id THEN table ELSE @[a]],
                !.ret = TOPOLOGY_OK]

\* topology_build_routes: the body of the loop for one socket.
build_route(net, socket) ==
    IF registry_get_agent(net.registry, socket.source_agent_id) = NULL
    THEN [net EXCEPT !.ret = TOPOLOGY_ERR_AGENT_NOT_FOUND]
    ELSE IF registry_get_agent(net.registry, socket.dest_agent_id) = NULL
    THEN [net EXCEPT !.ret = TOPOLOGY_ERR_AGENT_NOT_FOUND]
    ELSE IF routing_add_entry_ret(net.routing, socket.source_agent_id,
                                  socket.frequency_id,
                                  <<socket.dest_agent_id>>) # SIGNAL_OK
    THEN [net EXCEPT !.ret = TOPOLOGY_ERR_ALLOC_FAILED]
    ELSE LET slot == find_slot(net.routing, socket.source_agent_id,
                               socket.frequency_id)
             arrays == {<<"dest_agent_ids", slot.index>>,
                        <<"dest_queues", slot.index>>}
         IN  [net EXCEPT !.routing =
                routing_add_entry(@, socket.source_agent_id,
                                  socket.frequency_id, <<socket.dest_agent_id>>),
                         !.heap = Allocated(IF slot.found THEN Released(@, arrays)
                                            ELSE @, arrays),
                         !.ret = TOPOLOGY_OK]

\* The loop of topology_build_routes from socket i on.
RECURSIVE build_routes_from(_, _, _)
build_routes_from(net, sockets, i) ==
    IF i > Len(sockets) THEN [net EXCEPT !.ret = TOPOLOGY_OK]
    ELSE Once({IF next.ret # TOPOLOGY_OK THEN next
               ELSE build_routes_from(next, sockets, i + 1) :
               next \in {build_route(net, sockets[i])}})

\* topology_build_routes on a registry that has no routing table yet.
topology_build_routes(net, sockets) ==
    build_routes_from(
        [net EXCEPT !.routing = routing_table_create(Len(sockets) * 2),
                    !.heap = Allocated(@, {<<"routing", 0>>, <<"entries", 0>>}),
                    !.registry.routing = "routing"],
        sockets, 1)

\* The old-format registry topology_resolve_routes builds on its stack.
temp_registry(registry) ==
    [agents |-> [i \in 0..255 |->
                    IF i \in 1..registry.capacity
                       /\ AGENT_FLAG_ACTIVE \in registry.agents[i].flags
                    THEN registry.agents[i].queue ELSE NULL],
     count |-> registry.agent_count, capacity |-> 256]

\* a registry_destroy that gives back the registry's own blocks only
registry_destroy_shallow(net) ==
    [registry |-> NULL_STRUCT, queues |-> <<>>, dispatch |-> <<>>,
     routing |-> NULL_STRUCT, ret |-> net.ret,
     heap |-> Released(net.heap,
                {<<"agent_names", 0>>, <<"agents", 0>>, <<"registry", 0>>})]

\* a topology_init that leaves the cached mailboxes unresolved
topology_resolve_routes_skipped(net) == net

topology_resolve_routes(net) ==
    [net EXCEPT !.routing = routing_resolve_queues(@, temp_registry(net.registry))]

\* The loop of topology_init over the agent specs from spec i on.
RECURSIVE init_agents_from(_, _, _)
init_agents_from(net, agents, i) ==
    IF i > Len(agents) THEN net
    ELSE Once({IF next.ret # TOPOLOGY_OK THEN next
               ELSE init_agents_from(next, agents, i + 1) :
               next \in {topology_init_agent(net, agents[i])}})

\* The blocks routing_table_destroy gives back.
routing_table_blocks(table) ==
    {<<"routing", 0>>, <<"entries", 0>>}
    \cup UNION {{<<"dest_agent_ids", e>>, <<"dest_queues", e>>} :
                   e \in {x \in DOMAIN table.entries :
                             table.entries[x].source_agent_id # 0}}

\* The blocks registry_destroy gives back for the active agent in slot i.
agent_blocks(agent) ==
    (IF agent.name # NULL_NAME THEN {<<"name", agent.agent_id>>} ELSE {})
    \cup (IF AGENT_FLAG_INITIALIZED \in agent.flags /\ agent.state_size > 0
          THEN {<<"state", agent.agent_id>>} ELSE {})
    \cup (IF agent.queue # NULL THEN {<<"queue", agent.queue>>} ELSE {})
    \cup (IF agent.dispatch # NULL THEN {<<"dispatch", agent.dispatch>>} ELSE {})

\* registry_destroy: nothing of the network is left, the heap has the blocks
\* back.
registry_destroy(net) ==
    [registry |-> NULL_STRUCT, queues |-> <<>>, dispatch |-> <<>>,
     routing |-> NULL_STRUCT, ret |-> net.ret,
     heap |-> Released(net.heap,
                UNION {agent_blocks(net.registry.agents[i]) :
                         i \in {x \in 1..net.registry.capacity :
                                   AGENT_FLAG_ACTIVE \in net.registry.agents[x].flags}}
                \cup (IF net.routing # NULL_STRUCT
                      THEN routing_table_blocks(net.routing) ELSE {})
                \cup {<<"agent_names", 0>>, <<"agents", 0>>, <<"registry", 0>>})]

\* topology_init: the network it builds; registry is NULL when it returns NULL.
topology_init(descriptor) ==
    IF Len(descriptor.agents) = 0
    THEN [registry |-> NULL_STRUCT, queues |-> <<>>, dispatch |-> <<>>,
          routing |-> NULL_STRUCT, ret |-> TOPOLOGY_ERR_ALLOC_FAILED,
          heap |-> NoBlocks]
        ELSE
          LET created == [registry |-> registry_create(Len(descriptor.agents) + 1),
                          queues |-> <<>>, dispatch |-> <<>>,
                          routing |-> NULL_STRUCT, ret |-> TOPOLOGY_OK,
                          heap |-> Allocated(NoBlocks,
                                     {<<"registry", 0>>, <<"agents", 0>>,
                                      <<"agent_names", 0>>})]
          IN  Once({IF staffed.ret # TOPOLOGY_OK THEN registry_destroy(staffed)
                    ELSE IF Len(descriptor.sockets) = 0 THEN staffed
                    ELSE Once({IF routed.ret # TOPOLOGY_OK
                               THEN registry_destroy(routed)
                               ELSE topology_resolve_routes(routed) :
                               routed \in {topology_build_routes(
                                              staffed, descriptor.sockets)}}) :
                    staffed \in {init_agents_from(created, descriptor.agents, 1)}})

(* ------------------------------ Scheduler ------------------------------ *)
PHASE_REST  == "REST"
PHASE_SENSE == "SENSE"
PHASE_ACT   == "ACT"

scheduler_create ==
    [current_phase |-> PHASE_REST, running |-> 1,
     empty_cycles |-> 0, max_empty_cycles |-> 10,
     cycle_count |-> 0, total_signals_processed |-> 0,
     agents_active |-> 0, dispatch_errors |-> 0]

\* a loop that never looks at running
run_continues_always(s) == TRUE

\* scheduler_run: the loop condition.
run_continues(s) == s.running # 0

\* the test that lets one more empty cycle pass
run_should_stop_late(s) == s.empty_cycles > s.max_empty_cycles

\* a loop that ends after its first cycle
run_should_stop_at_once(s) == TRUE

\* a loop that no number of empty cycles ends
run_should_stop_never(s) == FALSE

\* scheduler_run: the test that ends the loop after a cycle.
run_should_stop(s) == s.empty_cycles >= s.max_empty_cycles

\* a loop that gives up its last pass
run_cycles_continues_short(i, n) == i + 1 < n

\* scheduler_run_cycles: the loop condition, i the index and n max_cycles.
run_cycles_continues(i, n) == i < n

\* a visit that empties the agent's mailbox before moving on
RECURSIVE run_cycle_visit_draining(_, _, _)
run_cycle_visit_draining(st, registry, n) ==
    LET agent == registry.agents[n]
    IN  IF agent = NULL THEN st
        ELSE
          LET sensing == [st EXCEPT !.sched.current_phase = PHASE_SENSE]
              sig == signal_queue_dequeue_ret(st.queues[agent])
          IN  IF sig = NULL THEN sensing
              ELSE run_cycle_visit_draining(
                     [sensing EXCEPT
                        !.queues[agent] = signal_queue_dequeue(@),
                        !.pending[agent] = Tail(@),
                        !.sched.current_phase = PHASE_ACT,
                        !.signals = signal_free(@, sig),
                        !.signals_processed = @ + 1,
                        !.sched.total_signals_processed = @ + 1],
                     registry, n)

\* scheduler_run_cycle: the body of the loop for registry slot n.  st holds
\* sched, signals, queues, pending and the local signals_processed.
run_cycle_visit(st, registry, n) ==
    LET agent == registry.agents[n]
    IN  IF agent = NULL THEN st
        ELSE
          LET sensing == [st EXCEPT !.sched.current_phase = PHASE_SENSE]
              sig == signal_queue_dequeue_ret(st.queues[agent])
          IN  IF sig = NULL THEN sensing
              ELSE [sensing EXCEPT
                      !.queues[agent] = signal_queue_dequeue(@),
                      !.pending[agent] = Tail(@),
                      !.sched.current_phase = PHASE_ACT,
                      !.signals = signal_free(@, sig),
                      !.signals_processed = @ + 1,
                      !.sched.total_signals_processed = @ + 1]

\* an update that counts every cycle as empty
run_cycle_finish_unreset(s, processed) ==
    [s EXCEPT !.cycle_count = @ + 1, !.empty_cycles = @ + 1]

\* scheduler_run_cycle: the statistics update after the loop.
run_cycle_finish(s, processed) ==
    LET counted == [s EXCEPT !.cycle_count = @ + 1]
    IN  IF processed > 0
        THEN [counted EXCEPT !.agents_active = @ + processed, !.empty_cycles = 0]
        ELSE [counted EXCEPT !.empty_cycles = @ + 1]

(* ------------------------- construction (Init) ------------------------- *)
\* Capacity each agent's mailbox is created with.
QueueRequest == [a \in AgentIds |-> 2]

\* A mailbox through which n signals have already passed (n as a uint32).
QueueAfter(q, n) ==
    [q EXCEPT !.head = n, !.tail = n, !.total_enqueued = n, !.total_dequeued = n]

\* Traffic a mailbox has seen before the model starts: none, or 2^32 - 2
\* signals, so that head, tail and the lifetime counters wrap within the run.
QueueAges == {0, -2}

\* References envelope 1 has been given before the model starts: it does not
\* exist yet, or it was created and signal_ref was called 65534 times.
RefAges == {0, 65534}

\* Routes of the network: kind 1 of agent 1 goes to agent 2, kind 2 of agent 1
\* to agents 1 and 2; agent 2 has no routes.
Routes ==
    routing_add_entry(
        routing_add_entry(routing_table_create(4), 1, 1, <<2>>),
        1, 2, <<1, 2>>)

\* Each agent's table.  Agent 1 handles kind 1 and has a default handler for
\* the rest; agent 2 handles kind 1 behind a guard and has no default handler.
DispatchTables ==
    [a \in AgentIds |->
        IF a = 1
        THEN dispatch_set_default(
                dispatch_register(
                    dispatch_set_state(dispatch_table_create(2, a), TestAgentState),
                    1, handle_reset, FN_NULL),
                handle_default)
        ELSE dispatch_register(
                dispatch_set_state(dispatch_table_create(2, a), TestAgentState),
                1, handle_guarded, guard_value_gt_10)]

MailboxCounts(qs) == [a \in AgentIds |-> qs[a].count]
MailboxTotals(qs) == [a \in AgentIds |-> qs[a].total_dequeued]

\* What burst records after a delivery that left the mailboxes as qs.
Burst(qs) ==
    [cycle_count |-> sched.cycle_count,
     count |-> MailboxCounts(qs), dequeued |-> MailboxTotals(qs)]

\* What last_run records while no scheduler_run call is being followed.
NoRun ==
    [state |-> "none", running |-> 0, empty_cycles |-> 0, cycle_count |-> 0,
     total_signals_processed |-> 0, queues |-> <<>>]

InitSignals ==
    /\ signals = [s \in SigIds |->
                    IF s = 1 /\ ref_age > 0
                    THEN [signal_create([x \in SigIds |-> BlankSignal],
                                        1, 1, 1, 5, 4)[1]
                            EXCEPT !.ref_count = 1 + ref_age]
                    ELSE BlankSignal]
    /\ sig_created = IF ref_age > 0 THEN 1 ELSE 0
    /\ held = [s \in SigIds |-> IF s = 1 /\ ref_age > 0 THEN 1 + ref_age ELSE 0]

InitQueues ==
    /\ queue_age \in QueueAges
    /\ queues = [a \in AgentIds |->
                   QueueAfter(signal_queue_create(QueueRequest[a]), queue_age)]
    /\ pending = [a \in AgentIds |-> <<>>]

InitNetwork ==
    /\ routing = Routes
    /\ dispatch = DispatchTables

\* What cycles_start records while no scheduler_run_cycles call is followed.
NoCycles ==
    [state |-> "none", cycle_count |-> 0, empty_cycles |-> 0, max_cycles |-> 0]

\* The keys of the routing table: (source agent, kind).
Keys == AgentIds \X Kinds

\* What routes_added records for the table Routes.
RoutesAdded ==
    [key \in Keys |-> IF key = <<1, 1>> THEN <<2>>
                      ELSE IF key = <<1, 2>> THEN <<1, 2>>
                      ELSE <<>>]

\* The network of Init was wired by hand: topology_init was not called.
NoTopology == [agents |-> <<>>, sockets |-> <<>>]

(* -------------------------------- heap --------------------------------- *)
\* Requests below this many bytes are given a block of this many bytes.
FREE_BLOCK_SIZE == 16
SIGNAL_SIZE == 32
SIGNAL_QUEUE_SIZE == 56     \* sizeof(SignalQueue)
DEFAULT_HEAP_SIZE == 16777216
PAGE_SIZE == 4096

\* (bytes + 7) & ~7
AlignUp8(bytes) == ((bytes + 7) \div 8) * 8

\* The size heap_allocate and heap_free work with for a request of bytes.
BlockSize(bytes) ==
    IF AlignUp8(bytes) < FREE_BLOCK_SIZE THEN FREE_BLOCK_SIZE ELSE AlignUp8(bytes)

\* heap_init on a heap that is not initialised; the region mmap returned
\* starts at address PAGE_SIZE.  current is an address, free_list the list
\* of FreeBlock headers from its head.
heap_init(initial_size) ==
    LET size  == IF initial_size = 0 THEN DEFAULT_HEAP_SIZE ELSE initial_size
        pages == ((size + PAGE_SIZE - 1) \div PAGE_SIZE) * PAGE_SIZE
    IN  [base |-> PAGE_SIZE, current |-> PAGE_SIZE, end |-> PAGE_SIZE + pages,
         total_size |-> pages, used |-> 0, peak_used |-> 0, free_list |-> <<>>]

\* a heap_charge that leaves the peak as it is
heap_charge_peak_stale(h, bytes) == [h EXCEPT !.used = @ + bytes]

\* The heap after used grew by bytes.
heap_charge(h, bytes) ==
    [h EXCEPT !.used = @ + bytes,
              !.peak_used = IF h.used + bytes > @ THEN h.used + bytes ELSE @]

\* Position in the free list of the first block a request of bytes fits in,
\* 0 when there is none.
FirstFit(list, bytes) ==
    LET fits == {i \in 1..Len(list) : list[i].size >= bytes}
    IN  IF fits = {} THEN 0 ELSE CHOOSE i \in fits : \A j \in fits : i <= j

\* an allocation that puts the unused tail of a larger free block back on
\* the free list
heap_allocate_splitting(h, bytes) ==
    IF bytes = 0 THEN [heap |-> h, ptr |-> NULL]
    ELSE
      LET size == BlockSize(bytes)
          i    == FirstFit(h.free_list, size)
      IN  IF i # 0
          THEN LET found == h.free_list[i]
                   tail  == IF found.size - size >= FREE_BLOCK_SIZE
                            THEN <<[addr |-> found.addr + size,
                                    size |-> found.size - size]>>
                            ELSE <<>>
               IN  [heap |-> heap_charge(
                                [h EXCEPT !.free_list =
                                    tail \o SubSeq(@, 1, i - 1)
                                         \o SubSeq(@, i + 1, Len(@))],
                                size),
                    ptr |-> found.addr]
          ELSE IF h.current + size > h.end
          THEN [heap |-> h, ptr |-> NULL]
          ELSE [heap |-> heap_charge([h EXCEPT !.current = @ + size], size),
                ptr |-> h.current]

\* heap_allocate on the initialised heap: the heap afterwards and the
\* address returned.
heap_allocate(h, bytes) ==
    IF bytes = 0 THEN [heap |-> h, ptr |-> NULL]
    ELSE
      LET size == BlockSize(bytes)
          i    == FirstFit(h.free_list, size)
      IN  IF i # 0
          THEN [heap |-> heap_charge(
                            [h EXCEPT !.free_list =
                                SubSeq(@, 1, i - 1) \o SubSeq(@, i + 1, Len(@))],
                            size),
                ptr |-> h.free_list[i].addr]
          ELSE IF h.current + size > h.end
          THEN [heap |-> h, ptr |-> NULL]
          ELSE [heap |-> heap_charge([h EXCEPT !.current = @ + size], size),
                ptr |-> h.current]

\* heap_free(ptr, bytes); used is a size_t the callers of this model never
\* take below zero.
heap_free(h, ptr, bytes) ==
    IF ptr = NULL \/ bytes = 0 THEN h
    ELSE [h EXCEPT !.free_list = <<[addr |-> ptr, size |-> BlockSize(bytes)]>> \o @,
                   !.used = @ - BlockSize(bytes)]

\* signal_free dropping the envelope's last reference without returning the payload
signal_free_heap_header_only(h, sig) ==
    IF SIGNAL_FLAG_HEAP_ALLOCATED \in sig.flags
    THEN heap_free(h, sig.addr, SIGNAL_SIZE)
    ELSE h

\* signal_free of an envelope whose only reference is the caller's: the heap
\* afterwards.
signal_free_heap(h, sig) ==
    LET h1 == IF SIGNAL_FLAG_OWNS_PAYLOAD \in sig.flags /\ sig.payload_ptr # NULL
              THEN heap_free(h, sig.payload_ptr, sig.payload_capacity)
              ELSE h
    IN  signal_free_heap_header_only(h1, sig)

\* signal_create as the heap sees it: the heap afterwards and the Signal
\* built (NULL_STRUCT when the call returns NULL).
signal_create_heap(h, payload, payload_size) ==
    IF payload_size > MAX_PAYLOAD_SIZE THEN [heap |-> h, sig |-> NULL_STRUCT]
    ELSE
      LET hdr == heap_allocate(h, SIGNAL_SIZE)
          sig == [addr |-> hdr.ptr, flags |-> {SIGNAL_FLAG_HEAP_ALLOCATED},
                  ref_count |-> 1, payload_ptr |-> NULL, payload_size |-> 0,
                  payload_capacity |-> 0]
      IN  IF hdr.ptr = NULL THEN [heap |-> h, sig |-> NULL_STRUCT]
          ELSE IF payload # NULL /\ payload_size > 0
          THEN LET capacity == AlignUp8(payload_size)
                   body     == heap_allocate(hdr.heap, capacity)
               IN  IF body.ptr = NULL
                   THEN [heap |-> signal_free_heap(body.heap, sig),
                         sig |-> NULL_STRUCT]
                   ELSE [heap |-> body.heap,
                         sig |-> [sig EXCEPT
                                    !.payload_ptr = body.ptr,
                                    !.payload_size = payload_size,
                                    !.payload_capacity = capacity,
                                    !.flags = @ \cup {SIGNAL_FLAG_OWNS_PAYLOAD}]]
          ELSE [heap |-> hdr.heap, sig |-> sig]

\* emit_signal on a routing table with no route for the signal's key, as the
\* heap sees it: the heap afterwards and the value returned.
emit_signal_heap(h, payload, payload_size) ==
    LET created == signal_create_heap(h, payload, payload_size)
    IN  IF created.sig = NULL_STRUCT
        THEN [heap |-> created.heap, ret |-> -SIGNAL_ERR_ALLOC_FAILED]
        ELSE [heap |-> signal_free_heap(created.heap, created.sig), ret |-> 0]

\* capacity * sizeof(Signal*) as a size_t, capacity a uint32_t.  A product of
\* 2^30 or more is written 2^30: no heap here is larger than
\* DEFAULT_HEAP_SIZE plus a page, so heap_allocate refuses both alike.
BufferSize(capacity) ==
    IF capacity < 0 \/ capacity >= (INT32_MAX \div 16) + 1
    THEN (INT32_MAX \div 2) + 1
    ELSE capacity * 8

\* signal_queue_create as the heap sees it: the heap afterwards and the
\* SignalQueue built (NULL_STRUCT when the call returns NULL).
signal_queue_create_heap(h, capacity) ==
    LET cap   == IF ~is_power_of_two(capacity) THEN next_power_of_two(capacity)
                 ELSE capacity
        queue == heap_allocate(h, SIGNAL_QUEUE_SIZE)
        buf   == heap_allocate(queue.heap, BufferSize(cap))
    IN  IF queue.ptr = NULL THEN [heap |-> h, queue |-> NULL_STRUCT]
        ELSE IF buf.ptr = NULL
        THEN [heap |-> heap_free(buf.heap, queue.ptr, SIGNAL_QUEUE_SIZE),
              queue |-> NULL_STRUCT]
        ELSE [heap |-> buf.heap,
              queue |-> [buffer |-> [i \in 0..(cap - 1) |-> NULL],
                         capacity |-> cap, mask |-> cap - 1,
                         head |-> 0, tail |-> 0, count |-> 0,
                         total_enqueued |-> 0, total_dequeued |-> 0,
                         dropped_count |-> 0, flags |-> {QUEUE_FLAG_ACTIVE}]]

\* The heap of a program that uses none.
InitHeap ==
    /\ g_heap = heap_init(0)
    /\ leases = {}
    /\ envelope = NULL_STRUCT
    /\ used_mark = 0
    /\ heap_calls = 0
    /\ destroyed = {}
    /\ mailbox = NULL_STRUCT
    /\ requested = 0

InitOther ==
    /\ run_i = 0
    /\ max_cycles = 0
    /\ cycles_start = NoCycles
    /\ topology = NoTopology
    /\ registry2 = NULL_STRUCT
    /\ blocks = NoBlocks
    /\ InitHeap
    /\ routes_added = RoutesAdded

\* The agent specs of a descriptor: agents 1 and 2, each with a state block
\* and a mailbox of two slots.
AgentSpecs ==
    [i \in 1..2 |-> [agent_id |-> i, name |-> IF i = 1 THEN "source" ELSE "sink",
                     state_size |-> 20, queue_capacity |-> 2]]

\* Socket definitions; agent 3 is not declared.
SocketDefs ==
    [source_agent_id : AgentIds, frequency_id : Kinds, dest_agent_id : 1..3]

\* The agent ids of a descriptor, in the order of its specs: agents 1 and 2,
\* one id twice, an id above the registry's capacity of 3, and id 0.
AgentLists == {<<1, 2>>, <<2, 1>>, <<1, 1>>, <<1, 4>>, <<0, 2>>}

\* The descriptors topology_init is called with.
Topologies ==
    {[agents |-> [i \in 1..2 |-> [AgentSpecs[i] EXCEPT !.agent_id = ids[i]]],
      sockets |-> ss] :
        ids \in AgentLists,
        ss \in UNION {[1..n -> SocketDefs] : n \in 1..MaxSockets}}

InitScheduler ==
    /\ sched = scheduler_create
    /\ pc = "idle"
    /\ caller = "none"
    /\ cycle_i = 0
    /\ signals_processed = 0
    /\ cycle_start = [count |-> MailboxCounts(queues), dequeued |-> MailboxTotals(queues)]
    /\ burst = Burst(queues)
    /\ last_run = NoRun

Init ==
    /\ ref_age = 0
    /\ InitSignals
    /\ InitQueues
    /\ InitNetwork
    /\ InitScheduler
    /\ InitOther
    /\ ret = 0

InitRef ==
    /\ ref_age \in RefAges
    /\ InitSignals
    /\ InitQueues
    /\ InitNetwork
    /\ InitScheduler
    /\ InitOther
    /\ ret = 0

(* ------------------------ calls on signals ----------------------------- *)
\* Bounds on the references the callers of one signal hold.
HeldCeiling(s) == IF s = 1 THEN ref_age + MaxHeld ELSE MaxHeld
HeldFloor(s) == IF s = 1 /\ ref_age > MaxHeld THEN ref_age - MaxHeld ELSE 0

\* Signal* sig = signal_create(kind, origin, &payload, size); the caller owns
\* the reference the new signal is born with.
SignalCreate(kind, origin, payload, size) ==
    /\ pc = "idle"
    /\ sig_created < MaxSignals
    /\ LET s == sig_created + 1
           ok == size <= MAX_PAYLOAD_SIZE
       IN  /\ signals' = signal_create(signals, s, kind, origin, payload, size)
           /\ sig_created' = IF ok THEN s ELSE sig_created
           /\ held' = IF ok THEN [held EXCEPT ![s] = 1] ELSE held
           /\ ret' = IF ok THEN s ELSE NULL
    /\ UNCHANGED <<ref_age, queueVars, routing, dispatch, schedVars, obsVars>>
    /\ UNCHANGED otherVars

\* signal_ref(sig) by a caller that holds sig: it now holds one more.
SignalRef(s) ==
    /\ pc = "idle"
    /\ Live(s) /\ held[s] > 0 /\ held[s] < HeldCeiling(s)
    /\ signals' = signal_ref(signals, s)
    /\ held' = [held EXCEPT ![s] = @ + 1]
    /\ ret' = 0
    /\ UNCHANGED <<sig_created, ref_age, queueVars, routing, dispatch,
                   schedVars, obsVars>>
    /\ UNCHANGED otherVars

\* signal_free(sig) by a caller that holds sig, giving up one reference.
SignalFree(s) ==
    /\ pc = "idle"
    /\ Live(s) /\ held[s] > HeldFloor(s)
    /\ signals' = signal_free(signals, s)
    /\ held' = [held EXCEPT ![s] = @ - 1]
    /\ ret' = 0
    /\ UNCHANGED <<sig_created, ref_age, queueVars, routing, dispatch,
                   schedVars, obsVars>>
    /\ UNCHANGED otherVars

\* signal_mark_processed(sig) by a caller that holds sig.
SignalMarkProcessed(s) ==
    /\ pc = "idle"
    /\ Live(s) /\ held[s] > HeldFloor(s)
    /\ signals' = signal_mark_processed(signals, s)
    /\ held' = [held EXCEPT ![s] = @ - 1]
    /\ ret' = 0
    /\ UNCHANGED <<sig_created, ref_age, queueVars, routing, dispatch,
                   schedVars, obsVars>>
    /\ UNCHANGED otherVars

(* ------------------------ calls on mailboxes --------------------------- *)
\* Enqueue attempts mailbox a has seen since the model started.
Traffic(a) == Sub32(queues[a].tail, queue_age) + queues[a].dropped_count

RECURSIVE SumOver(_, _)
SumOver(f, S) ==
    IF S = {} THEN 0
    ELSE LET x == CHOOSE y \in S : TRUE IN f[x] + SumOver(f, S \ {x})

TotalTraffic == SumOver([a \in AgentIds |-> Traffic(a)], AgentIds)

\* signal_queue_enqueue(queue of a, sig) by a caller that holds sig.
Enqueue(a, s) ==
    /\ pc = "idle"
    /\ Live(s) /\ held[s] > 0
    /\ TotalTraffic < MaxTraffic
    /\ LET r == signal_queue_enqueue_ret(queues[a], s)
       IN  /\ queues' = [queues EXCEPT ![a] = signal_queue_enqueue(@, s)]
           /\ signals' = IF r = SIGNAL_OK THEN signal_ref(signals, s) ELSE signals
           /\ pending' = IF r = SIGNAL_OK THEN [pending EXCEPT ![a] = Append(@, s)]
                         ELSE pending
           /\ ret' = r
    /\ burst' = Burst(queues')
    /\ last_run' = NoRun
    /\ UNCHANGED <<sig_created, held, ref_age, queue_age, routing, dispatch,
                   schedVars, cycle_start>>
    /\ UNCHANGED otherVars

\* Signal* sig = signal_queue_dequeue(queue of a): the caller inherits the
\* reference the slot held.
Dequeue(a) ==
    /\ pc = "idle"
    /\ LET s == signal_queue_dequeue_ret(queues[a])
       IN  /\ queues' = [queues EXCEPT ![a] = signal_queue_dequeue(@)]
           /\ held' = IF s # NULL THEN [held EXCEPT ![s] = @ + 1] ELSE held
           /\ pending' = IF pending[a] # <<>> THEN [pending EXCEPT ![a] = Tail(@)]
                         ELSE pending
           /\ ret' = s
    /\ burst' = Burst(queues')
    /\ last_run' = NoRun
    /\ UNCHANGED <<signals, sig_created, ref_age, queue_age, routing, dispatch,
                   schedVars, cycle_start>>
    /\ UNCHANGED otherVars

(* ------------------------ emit and dispatch ---------------------------- *)
\* emit_signal(table, agents, kind, origin, &payload, size)
EmitSignal(kind, origin, payload, size) ==
    /\ pc = "idle"
    /\ sig_created < MaxSignals
    /\ LET s == sig_created + 1
           st == emit_signal([signals |-> signals, queues |-> queues,
                              routing |-> routing, pending |-> pending,
                              delivered |-> 0],
                             s, Registry, kind, origin, payload, size)
       IN  /\ signals' = st.signals
           /\ queues' = st.queues
           /\ routing' = st.routing
           /\ pending' = st.pending
           /\ ret' = st.delivered
           /\ sig_created' = IF size <= MAX_PAYLOAD_SIZE THEN s ELSE sig_created
    /\ burst' = Burst(queues')
    /\ last_run' = NoRun
    /\ UNCHANGED <<held, ref_age, queue_age, dispatch, schedVars, cycle_start>>
    /\ UNCHANGED otherVars

\* dispatch_process_batch(table of a, queue of a, max_signals)
DispatchProcessBatch(a, max_signals) ==
    /\ pc = "idle"
    /\ LET st == dispatch_process_batch(
                    [signals |-> signals, queues |-> queues, pending |-> pending,
                     table |-> dispatch[a], processed |-> 0],
                    a, max_signals)
       IN  /\ signals' = st.signals
           /\ queues' = st.queues
           /\ pending' = st.pending
           /\ dispatch' = [dispatch EXCEPT ![a] = st.table]
           /\ ret' = st.processed
    /\ burst' = Burst(queues')
    /\ last_run' = NoRun
    /\ UNCHANGED <<sig_created, held, ref_age, queue_age, routing, schedVars,
                   cycle_start>>
    /\ UNCHANGED otherVars

\* dispatch_process_queue(table of a, queue of a)
DispatchProcessQueue(a) ==
    /\ pc = "idle"
    /\ \E st \in {dispatch_process_queue(
                    [signals |-> signals, queues |-> queues, pending |-> pending,
                     table |-> dispatch[a], processed |-> 0], a)} :
           /\ signals' = st.signals
           /\ queues' = st.queues
           /\ pending' = st.pending
           /\ dispatch' = [dispatch EXCEPT ![a] = st.table]
           /\ ret' = st.processed
    /\ burst' = Burst(queues')
    /\ last_run' = NoRun
    /\ UNCHANGED <<sig_created, held, ref_age, queue_age, routing, schedVars,
                   cycle_start>>
    /\ UNCHANGED otherVars

(* --------------------------- scheduler calls --------------------------- *)
(* ---------------------------- topology_init ---------------------------- *)
\* The destinations of the latest socket of each key, as routing_add_entry
\* is called for the sockets in order.
SocketRoutes(sockets) ==
    [key \in Keys |->
        LET mine == {i \in 1..Len(sockets) :
                        /\ sockets[i].source_agent_id = key[1]
                        /\ sockets[i].frequency_id = key[2]}
        IN  IF mine = {} THEN <<>>
            ELSE <<sockets[CHOOSE i \in mine : \A j \in mine : j <= i].dest_agent_id>>]

\* registry = topology_init(&topology): on success the program goes on with
\* the network the call built.
TopologyInit ==
    /\ pc = "idle"
    /\ registry2 = NULL_STRUCT
    /\ \E net \in {topology_init(topology)} :
        /\ blocks' = net.heap
        /\ IF net.registry = NULL_STRUCT
           THEN UNCHANGED <<queueVars, routing, dispatch, registry2, routes_added,
                            cycle_start, burst>>
           ELSE /\ registry2' = net.registry
                /\ queues' = net.queues
                /\ pending' = [a \in AgentIds |-> <<>>]
                /\ queue_age' = 0
                /\ routing' = net.routing
                /\ dispatch' = net.dispatch
                /\ routes_added' = SocketRoutes(topology.sockets)
                /\ cycle_start' = [count |-> MailboxCounts(queues'),
                                   dequeued |-> MailboxTotals(queues')]
                /\ burst' = Burst(queues')
    /\ last_run' = NoRun
    /\ UNCHANGED <<sigVars, schedVars, runCyclesVars, topology, heapVars, ret>>

\* emit_signal on the network topology_init built.
TopologyEmit(kind, origin, payload, size) ==
    /\ registry2 # NULL_STRUCT
    /\ EmitSignal(kind, origin, payload, size)

\* The first statements of scheduler_run_cycle, up to the loop.
CycleBegin(from) ==
    /\ sched.cycle_count < MaxCycles
    /\ pc' = "cycle"
    /\ caller' = from
    /\ cycle_i' = 0
    /\ signals_processed' = 0
    /\ sched' = [sched EXCEPT !.current_phase = PHASE_REST]
    /\ cycle_start' = [count |-> MailboxCounts(queues),
                       dequeued |-> MailboxTotals(queues)]

\* scheduler_run(sched) is called.
SchedulerRun ==
    /\ pc = "idle"
    /\ pc' = "run_loop"
    /\ last_run' = [state |-> "running", running |-> sched.running,
                    empty_cycles |-> sched.empty_cycles,
                    cycle_count |-> sched.cycle_count,
                    total_signals_processed |-> sched.total_signals_processed,
                    queues |-> queues]
    /\ UNCHANGED <<sigVars, queueVars, routing, dispatch, sched, caller, cycle_i,
                   signals_processed, cycle_start, burst, ret>>
    /\ UNCHANGED otherVars

\* scheduler_run: while (sched->running), entering the next cycle or returning.
RunLoopTest ==
    /\ pc = "run_loop"
    /\ IF run_continues(sched)
       THEN /\ CycleBegin("scheduler_run")
            /\ UNCHANGED <<last_run, ret>>
       ELSE /\ pc' = "idle"
            /\ ret' = sched.total_signals_processed
            /\ last_run' = [last_run EXCEPT !.state = "returned"]
            /\ UNCHANGED <<sched, caller, cycle_i, signals_processed, cycle_start>>
    /\ UNCHANGED <<sigVars, queueVars, routing, dispatch, burst>>
    /\ UNCHANGED otherVars

\* scheduler_run_cycle(sched) is called by the program itself.
SchedulerRunCycle ==
    /\ pc = "idle"
    /\ CycleBegin("main")
    /\ last_run' = NoRun
    /\ UNCHANGED <<sigVars, queueVars, routing, dispatch, burst, ret>>
    /\ UNCHANGED otherVars

\* scheduler_run_cycle: one pass of the loop over the registry.
CycleVisit ==
    /\ pc = "cycle"
    /\ cycle_i < Registry.count
    /\ LET st == run_cycle_visit(
                    [sched |-> sched, signals |-> signals, queues |-> queues,
                     pending |-> pending, signals_processed |-> signals_processed],
                    Registry, cycle_i)
       IN  /\ sched' = st.sched
           /\ signals' = st.signals
           /\ queues' = st.queues
           /\ pending' = st.pending
           /\ signals_processed' = st.signals_processed
    /\ cycle_i' = cycle_i + 1
    /\ UNCHANGED <<sig_created, held, ref_age, queue_age, routing, dispatch,
                   pc, caller, obsVars, ret>>
    /\ UNCHANGED otherVars

\* scheduler_run_cycle: the loop is over; statistics, then return.
CycleEnd ==
    /\ pc = "cycle"
    /\ cycle_i >= Registry.count
    /\ sched' = run_cycle_finish(sched, signals_processed)
    /\ ret' = signals_processed
    /\ pc' = IF caller = "scheduler_run" THEN "run_check"
             ELSE IF caller = "scheduler_run_cycles" THEN "cycles_check"
             ELSE "idle"
    /\ UNCHANGED <<sigVars, queueVars, routing, dispatch, caller, cycle_i,
                   signals_processed, obsVars>>
    /\ UNCHANGED otherVars

\* scheduler_run: what follows the call of scheduler_run_cycle in the loop.
RunCheck ==
    /\ pc = "run_check"
    /\ IF signals_processed < 0
       THEN /\ sched' = [sched EXCEPT !.dispatch_errors = @ + 1]
            /\ pc' = "run_loop"
            /\ UNCHANGED <<last_run, ret>>
       ELSE IF run_should_stop(sched)
       THEN /\ pc' = "idle"
            /\ ret' = sched.total_signals_processed
            /\ last_run' = [last_run EXCEPT !.state = "returned"]
            /\ UNCHANGED sched
       ELSE /\ pc' = "run_loop"
            /\ UNCHANGED <<sched, last_run, ret>>
    /\ UNCHANGED <<sigVars, queueVars, routing, dispatch, caller, cycle_i,
                   signals_processed, cycle_start, burst>>
    /\ UNCHANGED otherVars

\* scheduler_run_cycles(sched, n) is called.
SchedulerRunCycles(n) ==
    /\ pc = "idle"
    /\ sched.cycle_count + n <= MaxCycles
    /\ pc' = "cycles_loop"
    /\ run_i' = 0
    /\ max_cycles' = n
    /\ cycles_start' = [state |-> "running", cycle_count |-> sched.cycle_count,
                        empty_cycles |-> sched.empty_cycles, max_cycles |-> n]
    /\ last_run' = NoRun
    /\ UNCHANGED <<sigVars, queueVars, routing, dispatch, sched, caller, cycle_i,
                   signals_processed, cycle_start, burst, topoVars, routes_added,
                   heapVars, ret>>

\* scheduler_run_cycles: for (i = 0; i < max_cycles; ...), entering the next
\* cycle or returning.
RunCyclesTest ==
    /\ pc = "cycles_loop"
    /\ IF run_cycles_continues(run_i, max_cycles)
       THEN /\ CycleBegin("scheduler_run_cycles")
            /\ UNCHANGED <<cycles_start, ret>>
       ELSE /\ pc' = "idle"
            /\ ret' = sched.total_signals_processed
            /\ cycles_start' = [cycles_start EXCEPT !.state = "returned"]
            /\ UNCHANGED <<sched, caller, cycle_i, signals_processed, cycle_start>>
    /\ UNCHANGED <<sigVars, queueVars, routing, dispatch, burst, last_run,
                   run_i, max_cycles, topoVars, routes_added, heapVars>>

\* scheduler_run_cycles: what follows the call of scheduler_run_cycle in the
\* loop, and the i++ of the loop.
RunCyclesCheck ==
    /\ pc = "cycles_check"
    /\ sched' = IF signals_processed < 0
                THEN [sched EXCEPT !.dispatch_errors = @ + 1]
                ELSE sched
    /\ run_i' = run_i + 1
    /\ pc' = "cycles_loop"
    /\ UNCHANGED <<sigVars, queueVars, routing, dispatch, caller, cycle_i,
                   signals_processed, obsVars, max_cycles, cycles_start,
                   topoVars, routes_added, heapVars, ret>>

\* scheduler_shutdown(sched), whenever the program calls it: between the
\* scheduler's calls or while one of them is under way.
SchedulerShutdown ==
    /\ sched' = [sched EXCEPT !.running = 0]
    /\ UNCHANGED <<sigVars, queueVars, routing, dispatch, pc, caller, cycle_i,
                   signals_processed, obsVars, ret>>
    /\ UNCHANGED otherVars

(* --------------------------- specifications ---------------------------- *)
\* Signals and mailboxes driven by their callers and by emit_signal.
Next ==
    \/ \E k \in {1} : SignalCreate(k, 1, 5, 4)
    \/ \E s \in SigIds : SignalFree(s)
    \/ \E a \in AgentIds, s \in SigIds : Enqueue(a, s)
    \/ \E a \in AgentIds : Dequeue(a)
    \/ \E k \in Kinds, o \in AgentIds : EmitSignal(k, o, 5, 4)

Spec == Init /\ [][Next]_vars

\* The limits dispatch_process_batch is called with, as uint32: 0, 1, 2 and
\* 2^32 - 1.
BatchSizes == {0, 1, 2, Dec32(0)}

\* Mailboxes fed by emit_signal and drained by the agents' dispatch loops.
NextDispatch ==
    \/ \E k \in Kinds, o \in AgentIds : EmitSignal(k, o, 5, 4)
    \/ \E a \in AgentIds, n \in BatchSizes : DispatchProcessBatch(a, n)
    \/ \E a \in AgentIds : DispatchProcessQueue(a)

SpecDispatch == Init /\ [][NextDispatch]_vars

\* The scheduler over a network fed by emit_signal.
NextSched ==
    \/ \E k \in Kinds : EmitSignal(k, 1, 5, 4)
    \/ SchedulerRun
    \/ RunLoopTest
    \/ SchedulerRunCycle
    \/ CycleVisit
    \/ CycleEnd
    \/ RunCheck
    \/ SchedulerShutdown

SpecSched == Init /\ [][NextSched]_vars

\* A program that builds its network with topology_init and then emits.
InitTopology ==
    /\ ref_age = 0
    /\ InitSignals
    /\ InitQueues
    /\ InitNetwork
    /\ InitScheduler
    /\ run_i = 0
    /\ max_cycles = 0
    /\ cycles_start = NoCycles
    /\ topology \in Topologies
    /\ registry2 = NULL_STRUCT
    /\ blocks = NoBlocks
    /\ InitHeap
    /\ routes_added = RoutesAdded
    /\ ret = 0

NextTopology ==
    \/ TopologyInit
    \/ \E k \in Kinds, o \in AgentIds : TopologyEmit(k, o, 5, 4)

SpecTopology == InitTopology /\ [][NextTopology]_vars

(* --------------------------- routing calls ----------------------------- *)
\* The keys routing_add_entry and routing_lookup are called with: in a table
\* of four slots (3, 1) shares its home slot with (2, 2), (3, 2) with (2, 1);
\* 0 is the id of the first agent of a program that numbers its agents from 0.
RouteKeys == {0, 2, 3} \X Kinds

\* The destination arrays routing_add_entry is called with; <<>> is
\* dest_count 0.
RouteDestLists == {<<>>, <<1>>, <<2, 1>>}

\* routing_add_entry(table, key[1], key[2], Len(dests), dests)
RoutingAddEntry(key, dests) ==
    /\ pc = "idle"
    /\ routing.collision_count < MaxProbes
    /\ ret' = routing_add_entry_ret(routing, key[1], key[2], dests)
    /\ routing' = routing_add_entry(routing, key[1], key[2], dests)
    /\ routes_added' = IF ret' = SIGNAL_OK
                       THEN [routes_added EXCEPT ![key] = dests]
                       ELSE routes_added
    /\ UNCHANGED <<sigVars, queueVars, dispatch, schedVars, obsVars,
                   runCyclesVars, topoVars, heapVars>>

\* routing_lookup(table, key[1], key[2], &count); ret is count.
RoutingLookup(key) ==
    /\ pc = "idle"
    /\ routing.collision_count < MaxProbes
    /\ ret' = routing_lookup_count(routing, key[1], key[2])
    /\ routing' = Probed(routing, find_slot(routing, key[1], key[2]))
    /\ UNCHANGED <<sigVars, queueVars, dispatch, schedVars, obsVars,
                   otherVars>>

\* A program that fills an empty table of four slots and looks routes up.
InitRouting ==
    /\ ref_age = 0
    /\ InitSignals
    /\ InitQueues
    /\ routing = routing_table_create(4)
    /\ dispatch = DispatchTables
    /\ InitScheduler
    /\ run_i = 0
    /\ max_cycles = 0
    /\ cycles_start = NoCycles
    /\ topology = NoTopology
    /\ registry2 = NULL_STRUCT
    /\ blocks = NoBlocks
    /\ InitHeap
    /\ routes_added = [key \in RouteKeys |-> <<>>]
    /\ ret = 0

NextRouting ==
    \/ \E key \in RouteKeys, dests \in RouteDestLists : RoutingAddEntry(key, dests)
    \/ \E key \in RouteKeys : RoutingLookup(key)

SpecRouting == InitRouting /\ [][NextRouting]_vars

(* --------------------------- dispatch calls ---------------------------- *)
\* The (handler, guard) pairs dispatch_register is called with.
Registrations ==
    {<<handle_increment, FN_NULL>>, <<handle_guarded, guard_value_gt_10>>}

\* dispatch_register(table of a, kind, handler, guard)
DispatchRegister(a, kind, handler, guard) ==
    /\ pc = "idle"
    /\ dispatch' = [dispatch EXCEPT ![a] = dispatch_register(@, kind, handler, guard)]
    /\ UNCHANGED <<sigVars, queueVars, routing, schedVars, obsVars, otherVars>>
    /\ ret' = dispatch_register_ret(dispatch[a], kind)

\* dispatch_unregister(table of a, kind)
DispatchUnregister(a, kind) ==
    /\ pc = "idle"
    /\ dispatch' = [dispatch EXCEPT ![a] = dispatch_unregister(@, kind)]
    /\ UNCHANGED <<sigVars, queueVars, routing, schedVars, obsVars, otherVars>>
    /\ ret' = dispatch_unregister_ret(dispatch[a], kind)

\* dispatch_invoke(table of a, s) by a caller that holds s.
DispatchInvoke(a, s) ==
    /\ pc = "idle"
    /\ Live(s) /\ held[s] > 0
    /\ dispatch[a].lookup_count < MaxLookups
    /\ \E result \in {dispatch_invoke(dispatch[a], signals[s])} :
           /\ dispatch' = [dispatch EXCEPT ![a] = result.table]
           /\ UNCHANGED <<sigVars, queueVars, routing, schedVars, obsVars,
                          otherVars>>
           /\ ret' = result.ret

\* Tables with a state block and no handlers yet, three entries each.
FreshTables ==
    [a \in AgentIds |->
        dispatch_set_state(dispatch_table_create(3, a), TestAgentState)]

\* A program that registers and unregisters the handlers of agent 1 and
\* invokes them on the signals of kind 1 it creates.
InitHandlers ==
    /\ ref_age = 0
    /\ InitSignals
    /\ InitQueues
    /\ routing = Routes
    /\ dispatch = FreshTables
    /\ InitScheduler
    /\ InitOther
    /\ ret = 0

NextHandlers ==
    \/ \E p \in Payloads : SignalCreate(1, 1, p, 4)
    \/ \E k \in Kinds, r \in Registrations : DispatchRegister(1, k, r[1], r[2])
    \/ \E k \in Kinds : DispatchUnregister(1, k)
    \/ \E s \in SigIds : DispatchInvoke(1, s)

SpecHandlers == InitHandlers /\ [][NextHandlers]_vars

\* dispatch_set_default(table of a, handler)
DispatchSetDefault(a, handler) ==
    /\ pc = "idle"
    /\ dispatch' = [dispatch EXCEPT ![a] = dispatch_set_default(@, handler)]
    /\ UNCHANGED <<sigVars, queueVars, routing, schedVars, obsVars, otherVars,
                   ret>>

\* The default handlers of the program: none, one that always returns 0,
\* and one that returns -1 on a signal without payload.
DefaultHandlers == {FN_NULL, handle_default, handle_increment}

\* A program that installs and removes the handlers and the default handler
\* of agent 1 and invokes them on signals with and without payload.
NextDefault ==
    \/ \E k \in Kinds : SignalCreate(k, 1, 5, 4)
    \/ \E k \in Kinds : SignalCreate(k, 1, NULL, 0)
    \/ \E k \in Kinds : DispatchRegister(1, k, handle_reset, FN_NULL)
    \/ \E k \in Kinds : DispatchUnregister(1, k)
    \/ \E h \in DefaultHandlers : DispatchSetDefault(1, h)
    \/ \E s \in SigIds : DispatchInvoke(1, s)

SpecDefault == InitHandlers /\ [][NextDefault]_vars

(* --------------------------- registry calls ---------------------------- *)
\* The names agents are registered under.
Names == {"source", "sink"}

\* registry_register(registry, agent_id, name, state, 20, queue, dispatch);
\* the mailbox and the table, when given, are named by agent_id.
RegistryRegister(agent_id, name, state, queue, dispatch_table) ==
    /\ pc = "idle"
    /\ registry2' = registry_register(registry2, agent_id, name, state, 20,
                                      queue, dispatch_table, 2)
    /\ UNCHANGED <<sigVars, queueVars, routing, dispatch, schedVars, obsVars,
                   runCyclesVars, topology, blocks, routes_added, heapVars>>
    /\ ret' = registry_register_ret(registry2, agent_id)

\* A program that fills a registry of two slots by hand.
InitRegistry ==
    /\ ref_age = 0
    /\ InitSignals
    /\ InitQueues
    /\ InitNetwork
    /\ InitScheduler
    /\ run_i = 0
    /\ max_cycles = 0
    /\ cycles_start = NoCycles
    /\ topology = NoTopology
    /\ registry2 = registry_create(2)
    /\ blocks = NoBlocks
    /\ InitHeap
    /\ routes_added = RoutesAdded
    /\ ret = 0

NextRegistry ==
    \E agent_id \in 0..3, name \in Names, state \in {NULL_STRUCT, TestAgentState} :
        \E queue \in {NULL, agent_id}, dispatch_table \in {NULL, agent_id} :
            RegistryRegister(agent_id, name, state, queue, dispatch_table)

SpecRegistry == InitRegistry /\ [][NextRegistry]_vars

\* Cycle counts scheduler_run_cycles is called with.
CycleCounts == {1, 2, 10}

\* scheduler_run_cycles over a network fed by emit_signal.
NextCycles ==
    \/ \E k \in Kinds : EmitSignal(k, 1, 5, 4)
    \/ \E n \in CycleCounts : SchedulerRunCycles(n)
    \/ RunCyclesTest
    \/ CycleVisit
    \/ CycleEnd
    \/ RunCyclesCheck
    \/ SchedulerShutdown

SpecCycles == Init /\ [][NextCycles]_vars

\* Every call on signals, on signals that may already be widely shared.
NextRef ==
    \/ \E k \in {1} : SignalCreate(k, 1, 5, 4)
    \/ \E s \in SigIds : SignalRef(s)
    \/ \E s \in SigIds : SignalFree(s)
    \/ \E s \in SigIds : SignalMarkProcessed(s)
    \/ \E a \in AgentIds, s \in SigIds : Enqueue(a, s)
    \/ \E a \in AgentIds : Dequeue(a)

SpecRef == InitRef /\ [][NextRef]_vars

(* ------------------------------ properties ----------------------------- *)
\* Mailbox slots that reference signal s.
Slots(s) ==
    Cardinality({x \in AgentIds \X (0..1) :
                    /\ x[2] \in DOMAIN queues[x[1]].buffer
                    /\ queues[x[1]].buffer[x[2]] = s})

\* The agent the cycle is about to visit, NULL when the slot is empty or the
\* loop is over.
VisitedAgent ==
    IF pc = "cycle" /\ cycle_i < Registry.count THEN Registry.agents[cycle_i]
    ELSE NULL

\* C1: in a scheduler cycle, whenever a signal is dequeued from an agent's
\* mailbox, that agent's dispatch table is invoked on the signal (its counters
\* and the agent's state change as dispatch_invoke changes them) in the step
\* that also releases the scheduler's reference.
C1_VisitInvokesDispatch ==
    [][ (/\ VisitedAgent # NULL
         /\ cycle_i' = cycle_i + 1
         /\ signal_queue_dequeue_ret(queues[VisitedAgent]) # NULL)
        => dispatch'[VisitedAgent] =
             dispatch_invoke(
                dispatch[VisitedAgent],
                signals[signal_queue_dequeue_ret(queues[VisitedAgent])]).table
      ]_vars

\* C2: storage of a signal is released at most once, only by a step that
\* takes ref_count from 1 to 0, never while ref_count > 0, and ref_count is
\* never negative.
C2_ReleasedOnceByLastFree ==
    /\ [](\A s \in SigIds :
            /\ signals[s].ref_count >= 0
            /\ signals[s].hdr_frees <= 1
            /\ signals[s].payload_frees <= 1
            /\ signals[s].hdr_frees = 1 => signals[s].ref_count = 0)
    /\ [][\A s \in SigIds :
            (signals'[s].hdr_frees > signals[s].hdr_frees
             \/ signals'[s].payload_frees > signals[s].payload_frees)
            => signals[s].ref_count = 1 /\ signals'[s].ref_count = 0]_vars

\* C3: for every live signal ref_count is the number of mailbox slots that
\* reference it plus the references its callers hold, and a signal that was
\* created is live exactly while at least one such reference remains.
C3_RefCountIsSlotsPlusHeld ==
    \A s \in SigIds :
        /\ Live(s) => signals[s].ref_count = Slots(s) + held[s]
        /\ s <= sig_created => (Live(s) <=> Slots(s) + held[s] > 0)
        /\ signals[s].hdr_frees <= 1

\* C3 witness: a broadcast signal with one reference in a mailbox and one in
\* a consumer's hands, and another signal that was delivered and destroyed.
C3_Witness ==
    \E s, d \in SigIds :
        /\ Live(s) /\ Slots(s) = 1 /\ held[s] = 1
        /\ SIGNAL_FLAG_BROADCAST \in signals[s].flags
        /\ signals[d].hdr_frees = 1 /\ signals[d].payload_frees = 1

\* C4 as the specification states it: for every mailbox
\* total_enqueued - total_dequeued - dropped = count.
C4_EnqueuedLessDequeuedLessDropped ==
    \A a \in AgentIds :
        Sub32(Sub32(queues[a].total_enqueued, queues[a].total_dequeued),
              queues[a].dropped_count) = queues[a].count

\* C4 as the code keeps it: total_enqueued counts accepted signals only, so
\* for every mailbox total_enqueued - total_dequeued = count (modulo 2^32),
\* whatever dropped_count is.
C4_EnqueuedLessDequeued ==
    \A a \in AgentIds :
        Sub32(queues[a].total_enqueued, queues[a].total_dequeued) = queues[a].count

\* C4 witness: a mailbox that rejected a signal, returned one and holds one.
C4_Witness ==
    \E a \in AgentIds :
        /\ queues[a].dropped_count > 0
        /\ queues[a].total_dequeued # queue_age
        /\ queues[a].count > 0

\* C5: for every mailbox 0 <= count <= capacity and tail - head = count
\* (modulo 2^32).
C5_CountIsTailLessHead ==
    \A a \in AgentIds :
        /\ 0 <= queues[a].count
        /\ queues[a].count <= queues[a].capacity
        /\ Sub32(queues[a].tail, queues[a].head) = queues[a].count

\* C5 witness: a full mailbox whose tail has wrapped past 2^32 while its head
\* has not, its two signals lying across the end of the ring.
C5_Witness ==
    \E a \in AgentIds :
        /\ queues[a].head = -1
        /\ queues[a].tail = 1
        /\ And32(queues[a].tail, queues[a].mask) <= And32(queues[a].head, queues[a].mask)
        /\ queues[a].count = queues[a].capacity

\* C6: an enqueue returns OK iff count < capacity before it; on a full
\* mailbox it returns queue_full, adds one to dropped, sets the overflow flag
\* and changes neither the queued references, head, tail, count,
\* total_enqueued nor the rejected signal's ref_count.  A mailbox nothing was
\* taken from has dropped a signal only after accepting capacity many.
C6_RejectNewest ==
    /\ [][\A a \in AgentIds, s \in SigIds :
            Enqueue(a, s) =>
              /\ (ret' = SIGNAL_OK) <=> (queues[a].count < queues[a].capacity)
              /\ queues[a].count < queues[a].capacity =>
                    /\ queues'[a].count = queues[a].count + 1
                    /\ queues'[a].dropped_count = queues[a].dropped_count
              /\ queues[a].count >= queues[a].capacity =>
                    /\ ret' = SIGNAL_ERR_QUEUE_FULL
                    /\ queues'[a].dropped_count = Inc32(queues[a].dropped_count)
                    /\ QUEUE_FLAG_OVERFLOW \in queues'[a].flags
                    /\ queues'[a].buffer = queues[a].buffer
                    /\ queues'[a].head = queues[a].head
                    /\ queues'[a].tail = queues[a].tail
                    /\ queues'[a].count = queues[a].count
                    /\ queues'[a].total_enqueued = queues[a].total_enqueued
                    /\ signals'[s].ref_count = signals[s].ref_count
         ]_vars
    /\ [](\A a \in AgentIds :
            (queues[a].total_dequeued = queue_age /\ queues[a].dropped_count > 0)
            => /\ queues[a].count = queues[a].capacity
               /\ Sub32(queues[a].total_enqueued, queue_age) = queues[a].capacity)

\* C6 witness: a mailbox that accepted capacity many signals and has just
\* rejected the next one.
C6_Witness ==
    \E a \in AgentIds :
        /\ ret = SIGNAL_ERR_QUEUE_FULL
        /\ queues[a].dropped_count = 1
        /\ QUEUE_FLAG_OVERFLOW \in queues[a].flags
        /\ queues[a].count = queues[a].capacity
        /\ queues[a].total_dequeued = queue_age

\* The references mailbox a holds, oldest first, as the ring stores them.
Contents(a) ==
    [k \in 1..queues[a].count |->
        queues[a].buffer[And32(Add32(queues[a].head, k - 1), queues[a].mask)]]

\* C7: each mailbox holds exactly the accepted and not yet returned
\* references in the order they were accepted, and a dequeue returns the
\* oldest of them (NULL when there is none).
C7_MailboxIsFifo ==
    /\ [](\A a \in AgentIds : Contents(a) = pending[a])
    /\ [][\A a \in AgentIds :
            Dequeue(a) =>
              ret' = IF pending[a] = <<>> THEN NULL ELSE Head(pending[a])]_vars

\* C7 witness: the fourth signal through a mailbox of two slots has just been
\* returned while a fifth waits, and it is not the signal returned before.
C7_Witness ==
    \E a \in AgentIds :
        /\ Sub32(queues[a].total_dequeued, queue_age) = 4
        /\ queues[a].count = 1
        /\ ret # NULL /\ ret \in SigIds
        /\ held[ret] > 0
        /\ pending[a] # <<ret>>

\* Signals taken from mailbox a since the cycle now recorded in cycle_start
\* began, and since the latest delivery.
TakenInCycle(a) == Sub32(queues[a].total_dequeued, cycle_start.dequeued[a])
TakenSinceBurst(a) == Sub32(queues[a].total_dequeued, burst.dequeued[a])

\* The cycle recorded in cycle_start has visited agent a (agent a sits in
\* registry slot a, and the slots are visited in ascending order).
Visited(a) == pc # "cycle" \/ a < cycle_i

\* Visits agent a has had since the latest delivery.
VisitsSinceBurst(a) ==
    (sched.cycle_count - burst.cycle_count)
    + (IF pc = "cycle" /\ a < cycle_i THEN 1 ELSE 0)

Min(x, y) == IF x <= y THEN x ELSE y

FreshQuietRun ==
    /\ last_run.state # "none"
    /\ last_run.cycle_count = 0
    /\ last_run.empty_cycles = 0
    /\ \A a \in AgentIds : last_run.queues[a].count = 0

\* C9: after a cycle, scheduler_run returns (with total_signals_processed) as
\* soon as empty_cycles >= max_empty_cycles; a run begun on a fresh scheduler
\* over empty mailboxes takes at most max_empty_cycles + 1 cycles and
\* processes nothing.
C9_ReturnsWhenQuiescent ==
    /\ [][(/\ pc = "run_check"
           /\ pc' # "run_check"
           /\ sched.empty_cycles >= sched.max_empty_cycles)
          => (pc' = "idle" /\ ret' = sched.total_signals_processed)]_vars
    /\ [](FreshQuietRun =>
            /\ sched.max_empty_cycles = 10
            /\ sched.cycle_count <= sched.max_empty_cycles + 1
            /\ sched.total_signals_processed = 0)

\* C9 witness: a run on a fresh scheduler over empty mailboxes has returned
\* 0 after max_empty_cycles cycles, nobody having shut the scheduler down.
C9_Witness ==
    /\ FreshQuietRun
    /\ last_run.state = "returned"
    /\ sched.running = 1
    /\ sched.cycle_count = sched.max_empty_cycles
    /\ ret = 0

\* C10: once running is 0, scheduler_run starts no further cycle and returns
\* at its loop test, changing nothing; a cycle in progress always runs to its
\* end over the whole registry; and a scheduler_run call entered with running
\* 0 leaves cycle_count, total_signals_processed and the mailboxes as they
\* were.
C10_ShutdownStopsBetweenCycles ==
    /\ [][/\ (sched.running = 0 /\ pc \in {"run_loop", "run_check"})
              => pc' # "cycle"
          /\ (sched.running = 0 /\ pc = "run_loop" /\ pc' # pc)
              => /\ pc' = "idle"
                 /\ sched' = sched
                 /\ queues' = queues
                 /\ ret' = sched.total_signals_processed
          /\ (pc = "cycle" /\ pc' # "cycle")
              => /\ cycle_i = Registry.count
                 /\ sched'.cycle_count = sched.cycle_count + 1
         ]_vars
    /\ [](pc = "cycle" => ENABLED (CycleVisit \/ CycleEnd))
    /\ []((last_run.state # "none" /\ last_run.running = 0) =>
            /\ pc # "cycle"
            /\ sched.cycle_count = last_run.cycle_count
            /\ sched.total_signals_processed = last_run.total_signals_processed
            /\ queues = last_run.queues)

\* C10 witness: a run that was entered with running 1 has returned after a
\* shutdown, having run at least one cycle, with signals still queued and
\* fewer than max_empty_cycles empty cycles behind it.
C10_Witness ==
    /\ last_run.state = "returned"
    /\ last_run.running = 1
    /\ sched.running = 0
    /\ sched.cycle_count > last_run.cycle_count
    /\ sched.empty_cycles < sched.max_empty_cycles
    /\ \E a \in AgentIds : queues[a].count > 0

\* C11: scheduler_run_cycles(n) returns after exactly n cycles: while it runs
\* cycle_count is its value at entry plus the passes of the loop so far, the
\* loop goes on while fewer than n passes are done whatever empty_cycles and
\* running are, and at the return cycle_count has grown by exactly n.
C11_RunsExactlyNCycles ==
    /\ [](pc \in {"cycles_loop", "cycles_check"} =>
            sched.cycle_count = cycles_start.cycle_count + run_i
                                + (IF pc = "cycles_check" THEN 1 ELSE 0))
    /\ [](pc = "cycles_loop" /\ run_i < max_cycles => ENABLED RunCyclesTest)
    /\ [][(pc = "cycles_loop" /\ pc' = "idle") =>
            /\ run_i = max_cycles
            /\ sched'.cycle_count = cycles_start.cycle_count + max_cycles
            /\ ret' = sched.total_signals_processed]_vars

\* C11 witness: a call with n = 2 entered after max_empty_cycles empty cycles
\* and after a shutdown has returned, two cycles later.
C11_Witness ==
    /\ pc = "idle"
    /\ cycles_start.state = "returned"
    /\ cycles_start.max_cycles = 2
    /\ cycles_start.empty_cycles >= sched.max_empty_cycles
    /\ sched.running = 0
    /\ sched.cycle_count = cycles_start.cycle_count + 2

\* What dispatch_invoke returns when the handler did not run to success.
DispatchErrors ==
    {DISPATCH_ERR_NO_HANDLER, DISPATCH_ERR_GUARD_FAILED, DISPATCH_ERR_HANDLER_FAILED}

\* C12: in a scheduler cycle, when dispatching the signal dequeued from the
\* visited agent's mailbox yields no_handler, guard_failed or handler_failed,
\* the visit adds one to dispatch_errors and the cycle goes on to the next
\* agent.
C12_DispatchErrorCounted ==
    [][ (/\ VisitedAgent # NULL
         /\ cycle_i' = cycle_i + 1
         /\ signal_queue_dequeue_ret(queues[VisitedAgent]) # NULL
         /\ dispatch_invoke(
                dispatch[VisitedAgent],
                signals[signal_queue_dequeue_ret(queues[VisitedAgent])]).ret
              \in DispatchErrors)
        => /\ sched'.dispatch_errors = sched.dispatch_errors + 1
           /\ pc' = "cycle"
      ]_vars

\* Positions of dests that hold agent d.
Occurrences(dests, d) == {j \in 1..Len(dests) : dests[j] = d}

\* C13: once topology_init has succeeded, for every declared socket
\* (src, kind) -> dst the routing entry of (src, kind) lists dst exactly once,
\* also when several sockets share (src, kind).
C13_EverySocketRouted ==
    registry2 # NULL_STRUCT =>
        \A i \in 1..Len(topology.sockets) :
            LET socket == topology.sockets[i]
            IN  Cardinality(
                    Occurrences(routing_lookup(routing, socket.source_agent_id,
                                               socket.frequency_id),
                                socket.dest_agent_id)) = 1

\* The agents the route of (origin, kind) names, and those of them whose
\* mailbox has room.
RouteDests(origin, kind) ==
    {a \in AgentIds : Occurrences(routing_lookup(routing, origin, kind), a) # {}}
HasRoom(a) == queues[a].count < queues[a].capacity
Reached(origin, kind) == {a \in RouteDests(origin, kind) : HasRoom(a)}

\* C14: an emission from origin of kind puts exactly one reference to the new
\* signal at the tail of the mailbox of every destination of the route that
\* has room, leaves every other mailbox's content as it was, and the signal
\* ends with one reference per mailbox that took it.
C14_FanOutToRouteOnly ==
    [][\A k \in Kinds, o \in AgentIds :
        EmitSignal(k, o, 5, 4) =>
          /\ \A a \in Reached(o, k) :
                /\ pending'[a] = Append(pending[a], sig_created + 1)
                /\ queues'[a].count = queues[a].count + 1
                /\ queues'[a].buffer =
                      [queues[a].buffer EXCEPT
                         ![And32(queues[a].tail, queues[a].mask)] = sig_created + 1]
          /\ \A a \in AgentIds \ Reached(o, k) :
                /\ pending'[a] = pending[a]
                /\ queues'[a].count = queues[a].count
                /\ queues'[a].buffer = queues[a].buffer
          /\ signals'[sig_created + 1].ref_count = Cardinality(Reached(o, k))
      ]_vars

\* C14 witness: one signal, flagged broadcast, sits at the tail of both
\* mailboxes of its route and has exactly those two references.
C14_Witness ==
    \E s \in SigIds :
        /\ Live(s) /\ held[s] = 0
        /\ SIGNAL_FLAG_BROADCAST \in signals[s].flags
        /\ signals[s].ref_count = 2
        /\ \A a \in AgentIds :
              pending[a] # <<>> /\ pending[a][Len(pending[a])] = s

\* C15: an emission returns the number of destinations whose mailbox took
\* the signal, never an error; a destination whose mailbox is full gets one
\* more in dropped and its overflow flag, and the destinations after it in
\* the route are still served.
C15_ReturnsDeliveredCount ==
    [][\A k \in Kinds, o \in AgentIds :
        EmitSignal(k, o, 5, 4) =>
          /\ ret' = Cardinality(Reached(o, k))
          /\ ret' >= 0
          /\ \A a \in RouteDests(o, k) \ Reached(o, k) :
                /\ queues'[a].dropped_count = Inc32(queues[a].dropped_count)
                /\ QUEUE_FLAG_OVERFLOW \in queues'[a].flags
          /\ \A a \in Reached(o, k) :
                /\ queues'[a].dropped_count = queues[a].dropped_count
                /\ queues'[a].total_enqueued = Inc32(queues[a].total_enqueued)
          /\ \A a \in AgentIds \ RouteDests(o, k) : queues'[a] = queues[a]
      ]_vars

\* C15 witness: a broadcast has returned 1: the first mailbox of the route
\* was full and counted a drop, the second one took the signal.
C15_Witness ==
    /\ ret = 1
    /\ sig_created = 2
    /\ SIGNAL_FLAG_BROADCAST \in signals[2].flags
    /\ held[2] = 0
    /\ routing_lookup(routing, 1, 2) = <<1, 2>>
    /\ queues[1].dropped_count = 1
    /\ QUEUE_FLAG_OVERFLOW \in queues[1].flags
    /\ pending[1] = <<1, 1>>
    /\ pending[2] = <<2>>

\* C16: an emission whose (origin, kind) has no route, or whose route's
\* mailboxes are all full, returns 0, releases the envelope and the payload
\* it created exactly once, and leaves the content of every mailbox as it
\* was.
C16_UndeliveredIsReleased ==
    [][\A k \in Kinds, o \in AgentIds :
        (EmitSignal(k, o, 5, 4) /\ Reached(o, k) = {}) =>
          /\ ret' = 0
          /\ sig_created' = sig_created + 1
          /\ signals'[sig_created'].hdr_allocs = 1
          /\ signals'[sig_created'].hdr_frees = 1
          /\ signals'[sig_created'].payload_frees = 1
          /\ signals'[sig_created'].ref_count = 0
          /\ pending' = pending
          /\ \A a \in AgentIds :
                /\ queues'[a].buffer = queues[a].buffer
                /\ queues'[a].count = queues[a].count
                /\ queues'[a].head = queues[a].head
                /\ queues'[a].tail = queues[a].tail
      ]_vars

\* C16 witness: a broadcast found both mailboxes of its route full: each
\* counted a drop, nothing ever left them, and the signal, flagged broadcast,
\* is released with its payload.
C16_Witness ==
    /\ ret = 0
    /\ sig_created = 2
    /\ SIGNAL_FLAG_BROADCAST \in signals[2].flags
    /\ signals[2].hdr_frees = 1
    /\ signals[2].payload_frees = 1
    /\ \A a \in AgentIds :
          /\ queues[a].dropped_count = 1
          /\ queues[a].total_dequeued = queue_age
          /\ pending[a] = <<1, 1>>

\* C17: routing_lookup of every key gives the destinations of the latest
\* routing_add_entry that succeeded for it, in the order they were given
\* and with their number as count, and NULL with count 0 for a key no call
\* added, whatever the other keys in the table; a lookup call returns that
\* count and leaves the entries as they are.
C17_LookupReturnsAdded ==
    /\ [](\A key \in RouteKeys :
            /\ routing_lookup(routing, key[1], key[2]) = routes_added[key]
            /\ routing_lookup_count(routing, key[1], key[2])
                  = Len(routes_added[key]))
    /\ [][\A key \in RouteKeys :
            RoutingLookup(key) =>
                /\ ret' = Len(routes_added[key])
                /\ routing'.entries = routing.entries
                /\ routing'.entry_count = routing.entry_count]_vars

\* C17 witness: a lookup has returned count 2 while the table holds the
\* route (3, 1) -> 2, 1, found one slot after its home slot, which (2, 2)
\* occupies, and (3, 2) was never added although its home slot is taken.
C17_Witness ==
    /\ ret = 2
    /\ routes_added[<<3, 1>>] = <<2, 1>>
    /\ routing_lookup(routing, 3, 1) = <<2, 1>>
    /\ find_slot(routing, 3, 1).collisions > 0
    /\ routes_added[<<2, 2>>] = <<1>>
    /\ routes_added[<<3, 2>>] = <<>>
    /\ find_slot(routing, 3, 2).collisions > 0
    /\ ~find_slot(routing, 3, 2).found
    /\ routing.collision_count > 0

\* C18: routing_add_entry with a non-empty destination array for a key that
\* has an entry succeeds whatever the table holds, makes the array the
\* entry's destinations, and leaves entry_count and the other entries as
\* they were.
C18_UpdateAlwaysSucceeds ==
    [][\A key \in RouteKeys, dests \in RouteDestLists \ {<<>>} :
        (RoutingAddEntry(key, dests) /\ find_slot(routing, key[1], key[2]).found) =>
            /\ ret' = SIGNAL_OK
            /\ routing_lookup(routing', key[1], key[2]) = dests
            /\ routing'.entry_count = routing.entry_count
            /\ \A other \in RouteKeys \ {key} :
                  routing_lookup(routing', other[1], other[2])
                    = routing_lookup(routing, other[1], other[2])
      ]_vars

\* The active entries of table for kind.
ActiveEntries(table, kind) ==
    {i \in 0..(table.entry_count - 1) :
        /\ DISPATCH_FLAG_ACTIVE \in table.entries[i].flags
        /\ table.entries[i].frequency_id = kind}

\* C19: a table never has two active entries of one kind, whatever
\* dispatch_register and dispatch_unregister calls were made; and a
\* dispatch_register for a kind that has an active entry returns
\* DISPATCH_OK, puts the handler and the guard into that entry, and leaves
\* entry_count and every other entry as they were.
C19_OneActiveEntryPerKind ==
    /\ [](\A a \in AgentIds, k \in Kinds :
            Cardinality(ActiveEntries(dispatch[a], k)) <= 1)
    /\ [][\A k \in Kinds, r \in Registrations :
            (DispatchRegister(1, k, r[1], r[2])
               /\ ActiveEntries(dispatch[1], k) # {}) =>
                \E i \in ActiveEntries(dispatch[1], k) :
                    /\ dispatch'[1].entry_count = dispatch[1].entry_count
                    /\ dispatch'[1].entries[i].handler = r[1]
                    /\ dispatch'[1].entries[i].guard = r[2]
                    /\ dispatch'[1].entries[i].frequency_id = k
                    /\ ActiveEntries(dispatch'[1], k) = {i}
                    /\ \A j \in DOMAIN dispatch[1].entries \ {i} :
                          dispatch'[1].entries[j] = dispatch[1].entries[j]
                    /\ ret' = DISPATCH_OK]_vars

\* C19 witness: the only entry agent 1's table ever had is for kind 1; it
\* ran handle_increment on payload 5 and now holds handle_guarded and its
\* guard: the second registration overwrote the first.
C19_Witness ==
    /\ dispatch[1].entry_count = 1
    /\ ActiveEntries(dispatch[1], 1) = {0}
    /\ dispatch[1].entries[0].handler = handle_guarded
    /\ dispatch[1].entries[0].guard = guard_value_gt_10
    /\ dispatch[1].agent_state.handler_calls = 1
    /\ dispatch[1].agent_state.last_value = 5
    /\ dispatch[1].hit_count = 1

\* C20: dispatch_invoke on a signal whose kind has an active entry with a
\* guard returns DISPATCH_ERR_GUARD_FAILED and leaves the agent's state as
\* it was when the guard returns 0; when the guard returns non-zero it
\* returns DISPATCH_OK and the state is the one the handler leaves, one
\* more handler call than before.
C20_GuardRejection ==
    [][\A s \in SigIds :
        DispatchInvoke(1, s) =>
          \A i \in ActiveEntries(dispatch[1], signals[s].frequency_id) :
            (/\ DISPATCH_FLAG_HAS_GUARD \in dispatch[1].entries[i].flags
             /\ dispatch[1].entries[i].guard # FN_NULL) =>
                IF guard_result(dispatch[1].entries[i].guard, signals[s]) = 0
                THEN /\ ret' = DISPATCH_ERR_GUARD_FAILED
                     /\ dispatch'[1].agent_state = dispatch[1].agent_state
                ELSE /\ ret' = DISPATCH_OK
                     /\ dispatch'[1].agent_state =
                          handler_state(dispatch[1].entries[i].handler,
                                        dispatch[1].agent_state, signals[s])
                     /\ dispatch'[1].agent_state.handler_calls =
                          dispatch[1].agent_state.handler_calls + 1
      ]_vars

\* C20 witness: the one entry of agent 1's table, handle_guarded behind
\* guard_value_gt_10, was found by two invocations: payload 15 passed the
\* guard and set count, payload 5 was rejected and left the state alone.
C20_Witness ==
    /\ dispatch[1].entry_count = 1
    /\ dispatch[1].entries[0].handler = handle_guarded
    /\ dispatch[1].entries[0].guard = guard_value_gt_10
    /\ dispatch[1].hit_count = 2
    /\ dispatch[1].agent_state.handler_calls = 1
    /\ dispatch[1].agent_state.guard_passes = 1
    /\ dispatch[1].agent_state.count = 15
    /\ \E s \in SigIds : Live(s) /\ signals[s].payload_ptr = 5

\* C21: dispatch_invoke on a signal whose kind has no active entry counts
\* one miss and no hit; without a default handler it returns
\* DISPATCH_ERR_NO_HANDLER and leaves the agent's state alone, with one it
\* applies the default handler once and returns DISPATCH_OK when the
\* handler returned 0 and DISPATCH_ERR_HANDLER_FAILED otherwise.
C21_MissRunsDefault ==
    [][\A s \in SigIds :
        (DispatchInvoke(1, s)
           /\ ActiveEntries(dispatch[1], signals[s].frequency_id) = {}) =>
          /\ dispatch'[1].miss_count = Inc32(dispatch[1].miss_count)
          /\ dispatch'[1].hit_count = dispatch[1].hit_count
          /\ dispatch'[1].entries = dispatch[1].entries
          /\ IF dispatch[1].default_handler = FN_NULL
             THEN /\ ret' = DISPATCH_ERR_NO_HANDLER
                  /\ dispatch'[1].agent_state = dispatch[1].agent_state
             ELSE /\ dispatch'[1].agent_state =
                       handler_state(dispatch[1].default_handler,
                                     dispatch[1].agent_state, signals[s])
                  /\ IF handler_result(dispatch[1].default_handler, signals[s]) = 0
                     THEN /\ ret' = DISPATCH_OK
                          /\ dispatch'[1].agent_state.handler_calls =
                               dispatch[1].agent_state.handler_calls + 1
                     ELSE /\ ret' = DISPATCH_ERR_HANDLER_FAILED
                          /\ dispatch'[1].agent_state = dispatch[1].agent_state
      ]_vars

\* C21 witness: agent 1's only entry, for kind 1, was unregistered; two
\* invocations of kind-1 signals missed, one of them ran handle_default.
C21_Witness ==
    /\ dispatch[1].entry_count = 1
    /\ dispatch[1].entries[0].frequency_id = 1
    /\ DISPATCH_FLAG_ACTIVE \notin dispatch[1].entries[0].flags
    /\ dispatch[1].default_handler = handle_default
    /\ dispatch[1].miss_count = 2
    /\ dispatch[1].hit_count = 0
    /\ dispatch[1].agent_state.handler_calls = 1
    /\ sig_created > 0
    /\ \A s \in 1..sig_created : signals[s].frequency_id = 1

\* min(max_signals, count), max_signals a uint32.
BatchShare(max_signals, count) ==
    IF max_signals < 0 THEN count ELSE Min(max_signals, count)

\* What m dequeues with one signal_free each leave of mailbox a and of the
\* signals that were in it.
Processed(a, m) ==
    /\ ret' = m
    /\ pending'[a] = SubSeq(pending[a], m + 1, Len(pending[a]))
    /\ queues'[a].count = queues[a].count - m
    /\ queues'[a].head = Add32(queues[a].head, m)
    /\ dispatch'[a].lookup_count = Add32(dispatch[a].lookup_count, m)
    /\ \A s \in SigIds :
          IF \E i \in 1..m : pending[a][i] = s
          THEN IF signals[s].ref_count > 1
               THEN /\ signals'[s].ref_count = signals[s].ref_count - 1
                    /\ signals'[s].hdr_frees = 0
               ELSE signals'[s].hdr_frees = 1
          ELSE signals'[s] = signals[s]
    /\ \A b \in AgentIds \ {a} : queues'[b] = queues[b] /\ pending'[b] = pending[b]

\* C22: dispatch_process_batch takes min(max_signals, count) signals from
\* the head of the mailbox, dispatches and frees each once, returns their
\* number and leaves the rest queued in order; dispatch_process_queue does
\* so with all count signals and leaves the mailbox empty.
C22_BatchTakesMin ==
    [][/\ \A a \in AgentIds, n \in BatchSizes :
            DispatchProcessBatch(a, n) =>
                Processed(a, BatchShare(n, queues[a].count))
       /\ \A a \in AgentIds :
            DispatchProcessQueue(a) =>
                Processed(a, queues[a].count) /\ queues'[a].count = 0
      ]_vars

\* C23: registry_register returns TOPOLOGY_ERR_CAPACITY for id 0 and for an
\* id above the capacity, and TOPOLOGY_ERR_AGENT_EXISTS for an id whose slot
\* is active; in both cases the registry (agents, names, agent_count) is as
\* it was before the call.
C23_RegisterFailureKeepsRegistry ==
    [][\A agent_id \in 0..3, name \in Names, state \in {NULL_STRUCT, TestAgentState} :
       \A queue \in {NULL, agent_id}, dispatch_table \in {NULL, agent_id} :
        RegistryRegister(agent_id, name, state, queue, dispatch_table) =>
          IF agent_id = 0 \/ agent_id > registry2.capacity
          THEN ret' = TOPOLOGY_ERR_CAPACITY /\ registry2' = registry2
          ELSE IF registry_get_agent(registry2, agent_id) # NULL
          THEN ret' = TOPOLOGY_ERR_AGENT_EXISTS /\ registry2' = registry2
          ELSE /\ ret' = TOPOLOGY_OK
               /\ registry_get_agent(registry2', agent_id) = agent_id
               /\ registry2'.agent_names[agent_id] = name
      ]_vars

\* C23 witness: with both slots live a register call has just been refused
\* because its slot was taken.
C23_Witness ==
    /\ registry2.agent_count = 2
    /\ \A i \in 1..2 : registry_get_agent(registry2, i) = i
    /\ registry2.agent_names = <<"source", "sink">>
    /\ ret = TOPOLOGY_ERR_AGENT_EXISTS

Declared(descriptor) ==
    {descriptor.agents[i].agent_id : i \in 1..Len(descriptor.agents)}

\* A descriptor with an agent id that is 0, above the registry's capacity or
\* given twice, or with a socket whose source or destination is not declared.
Unbuildable(descriptor) ==
    \/ \E i \in 1..Len(descriptor.agents) :
          \/ descriptor.agents[i].agent_id = 0
          \/ descriptor.agents[i].agent_id > Len(descriptor.agents) + 1
          \/ \E j \in 1..(i - 1) :
                descriptor.agents[j].agent_id = descriptor.agents[i].agent_id
    \/ \E i \in 1..Len(descriptor.sockets) :
          \/ descriptor.sockets[i].source_agent_id \notin Declared(descriptor)
          \/ descriptor.sockets[i].dest_agent_id \notin Declared(descriptor)

\* C25: topology_init of a descriptor that cannot be built returns NULL with
\* every block it allocated given back exactly once and the program's
\* network untouched; of any other descriptor it returns a registry and has
\* freed no block it still uses.
C25_AllOrNothing ==
    [][TopologyInit =>
        IF Unbuildable(topology)
        THEN /\ registry2' = NULL_STRUCT
             /\ \A b \in Blocks : blocks'.frees[b] = blocks'.allocs[b]
             /\ UNCHANGED <<queues, routing, dispatch>>
        ELSE /\ registry2' # NULL_STRUCT
             /\ \A b \in Blocks : blocks'.frees[b] <= blocks'.allocs[b]
             /\ \A a \in Declared(topology) :
                   /\ blocks'.allocs[<<"queue", a>>] = 1
                   /\ blocks'.frees[<<"queue", a>>] = 0
      ]_vars

\* C25 witness: topology_init has failed on its second socket: both agents,
\* the routing table and the first socket's entry had been built, and every
\* block is back on the heap.
C25_Witness ==
    /\ registry2 = NULL_STRUCT
    /\ \A a \in {1, 2} : blocks.allocs[<<"queue", a>>] = 1
    /\ blocks.allocs[<<"routing", 0>>] = 1
    /\ \E e \in 0..3 : blocks.allocs[<<"dest_queues", e>>] = 1
    /\ \A b \in Blocks : blocks.frees[b] = blocks.allocs[b]

(* --------------------------- heap accounting --------------------------- *)
\* Sizes heap_init is called with: one page, and 0 for the default.
InitialSizes == {1, 0}

\* Sizes asked of heap_allocate: nothing, less than the smallest block, not
\* a multiple of 8, a whole page and more than a page.
AllocSizes == {0, 1, 20, 40, PAGE_SIZE, PAGE_SIZE + 1}

\* Payload sizes given to signal_create.
PayloadSizes == {0, 1, 8, 9, MAX_PAYLOAD_SIZE - 1, MAX_PAYLOAD_SIZE, MAX_PAYLOAD_SIZE + 1}

\* ptr = heap_allocate(bytes); the caller remembers the size it asked for.
HeapAllocate(bytes) ==
    /\ envelope = NULL_STRUCT
    /\ heap_calls < MaxAllocs
    /\ \E r \in {heap_allocate(g_heap, bytes)} :
        /\ g_heap' = r.heap
        /\ leases' = IF r.ptr = NULL THEN leases
                     ELSE leases \cup {[addr |-> r.ptr, size |-> bytes]}
        /\ ret' = r.ptr
    /\ heap_calls' = heap_calls + 1
    /\ UNCHANGED <<sigVars, queueVars, routing, dispatch, schedVars, obsVars,
                   runCyclesVars, topoVars, routes_added, destroyed, mailbox, requested, envelope, used_mark>>

\* heap_free(ptr, bytes) of a block the caller holds, with the size it asked for.
HeapFree(block) ==
    /\ envelope = NULL_STRUCT
    /\ block \in leases
    /\ g_heap' = heap_free(g_heap, block.addr, block.size)
    /\ leases' = leases \ {block}
    /\ ret' = 0
    /\ UNCHANGED <<sigVars, queueVars, routing, dispatch, schedVars, obsVars,
                   runCyclesVars, topoVars, routes_added, destroyed, mailbox, requested, envelope, used_mark,
                   heap_calls>>

\* sig = signal_create(kind, origin, payload, size), seen from the heap.
HeapSignalCreate(payload, size) ==
    /\ envelope = NULL_STRUCT
    /\ heap_calls < MaxAllocs
    /\ \E r \in {signal_create_heap(g_heap, payload, size)} :
        /\ g_heap' = r.heap
        /\ envelope' = r.sig
        /\ ret' = IF r.sig = NULL_STRUCT THEN NULL ELSE r.sig.addr
    /\ used_mark' = g_heap.used
    /\ heap_calls' = heap_calls + 1
    /\ UNCHANGED <<sigVars, queueVars, routing, dispatch, schedVars, obsVars,
                   runCyclesVars, topoVars, routes_added, destroyed, mailbox, requested, leases>>

\* signal_free(sig) by the creator, nobody else having taken a reference.
HeapSignalFree ==
    /\ envelope # NULL_STRUCT
    /\ g_heap' = signal_free_heap(g_heap, envelope)
    /\ envelope' = NULL_STRUCT
    /\ ret' = 0
    /\ UNCHANGED <<sigVars, queueVars, routing, dispatch, schedVars, obsVars,
                   runCyclesVars, topoVars, routes_added, destroyed, mailbox, requested, leases, used_mark,
                   heap_calls>>

\* emit_signal(table, agents, kind, origin, payload, size) where the table
\* routes the signal nowhere.
HeapEmitSignal(payload, size) ==
    /\ envelope = NULL_STRUCT
    /\ heap_calls < MaxAllocs
    /\ \E r \in {emit_signal_heap(g_heap, payload, size)} :
        /\ g_heap' = r.heap
        /\ ret' = r.ret
    /\ used_mark' = g_heap.used
    /\ heap_calls' = heap_calls + 1
    /\ UNCHANGED <<sigVars, queueVars, routing, dispatch, schedVars, obsVars,
                   runCyclesVars, topoVars, routes_added, destroyed, mailbox, requested, leases, envelope>>

InitHeaps ==
    /\ ref_age = 0
    /\ InitSignals
    /\ InitQueues
    /\ InitNetwork
    /\ InitScheduler
    /\ run_i = 0
    /\ max_cycles = 0
    /\ cycles_start = NoCycles
    /\ topology = NoTopology
    /\ registry2 = NULL_STRUCT
    /\ blocks = NoBlocks
    /\ routes_added = RoutesAdded
    /\ g_heap \in {heap_init(initial_size) : initial_size \in InitialSizes}
    /\ leases = {}
    /\ envelope = NULL_STRUCT
    /\ used_mark = 0
    /\ heap_calls = 0
    /\ destroyed = {}
    /\ mailbox = NULL_STRUCT
    /\ requested = 0
    /\ ret = 0

NextHeap ==
    \/ \E bytes \in AllocSizes : HeapAllocate(bytes)
    \/ \E block \in leases : HeapFree(block)
    \/ \E payload \in {NULL, 5}, size \in PayloadSizes : HeapSignalCreate(payload, size)
    \/ HeapSignalFree
    \/ \E payload \in {NULL, 5}, size \in PayloadSizes : HeapEmitSignal(payload, size)

SpecHeap == InitHeaps /\ [][NextHeap]_vars

\* C26: after every heap_allocate and heap_free, whatever the sizes asked
\* for and whether the block came from the free list or from fresh memory,
\* used <= peak_used <= total_size, every block being freed at most once
\* with the size it was allocated with.
C26_HeapAccounting ==
    /\ 0 <= g_heap.used
    /\ g_heap.used <= g_heap.peak_used
    /\ g_heap.peak_used <= g_heap.total_size

\* C26 witness: a block of 40 bytes was freed and then handed out again for
\* a request of 1 byte, so the heap counts 16 bytes used of the 40 it carved.
C26_Witness ==
    /\ g_heap.current = g_heap.base + 40
    /\ g_heap.free_list = <<>>
    /\ leases = {[addr |-> g_heap.base, size |-> 1]}
    /\ g_heap.used = FREE_BLOCK_SIZE
    /\ g_heap.peak_used = 40

\* C27: signal_free by the creator of a signal nobody else referenced gives
\* back everything signal_create took: heap used is again what it was just
\* before the create, for payloads of 0 bytes, of sizes rounded up to the
\* 16-byte block or to a multiple of 8, and of MAX_PAYLOAD_SIZE bytes.
C27_CreateFreeRestoresUsed ==
    [][HeapSignalFree => g_heap'.used = used_mark]_vars

\* C27 witness: a signal with a 1-byte payload was created and freed: its
\* 16-byte payload block and then its header are on the free list and used
\* is back at its mark.
C27_Witness ==
    /\ envelope = NULL_STRUCT
    /\ Len(g_heap.free_list) >= 2
    /\ g_heap.free_list[1].size = SIGNAL_SIZE
    /\ g_heap.free_list[2].size = FREE_BLOCK_SIZE
    /\ g_heap.used = used_mark

\* C28: signal_create of exactly MAX_PAYLOAD_SIZE bytes succeeds on a heap
\* with room; of one byte more it returns NULL and leaves the heap as it
\* was; emit_signal of one byte more than MAX_PAYLOAD_SIZE returns the
\* payload_too_large error, which is not the allocation-failure error.
C28_PayloadBoundary ==
    [][\A payload \in {NULL, 5} :
        /\ HeapSignalCreate(payload, MAX_PAYLOAD_SIZE)
              /\ g_heap.total_size = DEFAULT_HEAP_SIZE
           => envelope' # NULL_STRUCT
        /\ HeapSignalCreate(payload, MAX_PAYLOAD_SIZE + 1)
           => envelope' = NULL_STRUCT /\ g_heap' = g_heap
        /\ HeapEmitSignal(payload, MAX_PAYLOAD_SIZE + 1)
           => /\ g_heap' = g_heap
              /\ ret' = -SIGNAL_ERR_PAYLOAD_TOO_LARGE
              /\ ret' # -SIGNAL_ERR_ALLOC_FAILED
      ]_vars

(* ------------------------- scheduler_run, fairly ----------------------- *)
\* scheduler_run(sched) called while the cycles it can need, one per queued
\* signal and max_empty_cycles more, fit under MaxCycles.
SchedulerRunToEnd ==
    /\ sched.cycle_count + MaxSignals + sched.max_empty_cycles <= MaxCycles
    /\ SchedulerRun

\* The program fills mailboxes with emit_signal, may ask for shutdown at any
\* moment, and calls scheduler_run.
NextRun ==
    \/ \E k \in Kinds : EmitSignal(k, 1, 5, 4)
    \/ SchedulerRunToEnd
    \/ RunLoopTest
    \/ CycleVisit
    \/ CycleEnd
    \/ RunCheck
    \/ SchedulerShutdown

\* scheduler_run is sequential code on a running thread: once called, its
\* next statement is always executed.
RunProgress ==
    /\ WF_vars(RunLoopTest)
    /\ WF_vars(CycleVisit)
    /\ WF_vars(CycleEnd)
    /\ WF_vars(RunCheck)

SpecRun == Init /\ [][NextRun]_vars /\ RunProgress

\* C29: scheduler_run entered with running set, whatever the mailboxes hold
\* and whether or not shutdown is asked for meanwhile, eventually returns.
C29_RunReturns ==
    (last_run.state = "running" /\ last_run.running # 0)
        ~> (last_run.state = "returned")

\* C29 witness: a scheduler_run that found signals queued has returned by
\* itself, running still set, after max_empty_cycles empty cycles.
C29_Witness ==
    /\ last_run.state = "returned"
    /\ last_run.running # 0
    /\ sched.running # 0
    /\ \E a \in AgentIds : last_run.queues[a].count > 0
    /\ sched.empty_cycles >= sched.max_empty_cycles
    /\ pc = "idle"

\* The agents scheduler_run_cycle visits: those of the registry's slots below count.
VisitedAgents ==
    {Registry.agents[i] : i \in 0..(Registry.count - 1)} \ {NULL}

\* C30: when scheduler_run returns after its empty-cycle test with running
\* still set, the mailbox of every agent the cycle visits is empty; and with
\* running set it returns nowhere else.
C30_QuiescentReturnLeavesNothing ==
    [][(/\ pc \in {"run_loop", "run_check"}
        /\ pc' = "idle"
        /\ sched.running # 0)
       => /\ pc = "run_check"
          /\ \A a \in VisitedAgents :
                /\ queues'[a].count = 0
                /\ pending'[a] = <<>>
                /\ signal_queue_dequeue_ret(queues'[a]) = NULL
      ]_vars

\* C30 witness: scheduler_run, entered with two signals in one mailbox, has
\* returned with running still set and after processing both; every mailbox
\* is empty.
C30_Witness ==
    /\ pc = "idle"
    /\ last_run.state = "returned"
    /\ sched.running # 0
    /\ \E a \in VisitedAgents : last_run.queues[a].count = 2
    /\ sched.total_signals_processed >= last_run.total_signals_processed + 2
    /\ \A a \in VisitedAgents : queues[a].count = 0

\* C31: the end of every scheduler cycle, whoever called it, adds exactly one
\* to cycle_count; it adds one to empty_cycles when the cycle took no signal
\* from any mailbox and sets it to 0 when it took at least one, so that
\* empty_cycles counts the latest consecutive empty cycles.
C31_CycleBookkeeping ==
    [][CycleEnd =>
        /\ sched'.cycle_count = sched.cycle_count + 1
        /\ sched'.empty_cycles =
              IF \A a \in AgentIds : TakenInCycle(a) = 0
              THEN sched.empty_cycles + 1
              ELSE 0
      ]_vars

\* C31 witness: at least three cycles have ended, one of them took a signal
\* and the count of empty cycles, reset since, stands at one again.
C31_Witness ==
    /\ pc # "cycle"
    /\ sched.cycle_count >= 3
    /\ sched.total_signals_processed > 0
    /\ sched.empty_cycles = 1

\* What routing_broadcast returns for a fresh signal of the given kind and
\* origin on the table as it is now.
BroadcastCount(kind, origin) ==
    routing_broadcast([signals |-> signal_create(signals, 1, kind, origin, 5, 4),
                       queues |-> queues, routing |-> routing,
                       pending |-> pending, delivered |-> 0],
                      1, Registry).delivered

C33_UnregisterFreesNoSlot ==
    /\ [](\A a \in AgentIds : dispatch[a].entry_count <= dispatch[a].capacity)
    /\ [][\A a \in AgentIds :
            dispatch'[a].entry_count >= dispatch[a].entry_count]_vars
    /\ [][\A k \in Kinds :
            DispatchUnregister(1, k) =>
                dispatch'[1].entry_count = dispatch[1].entry_count]_vars
    /\ [][\A k \in Kinds, r \in Registrations :
            (DispatchRegister(1, k, r[1], r[2])
               /\ ActiveEntries(dispatch[1], k) = {}) =>
                IF dispatch[1].entry_count = dispatch[1].capacity
                THEN /\ ret' = DISPATCH_ERR_ALLOC_FAILED
                     /\ dispatch'[1] = dispatch[1]
                ELSE /\ ret' = DISPATCH_OK
                     /\ dispatch'[1].entry_count = dispatch[1].entry_count + 1
                     /\ ActiveEntries(dispatch'[1], k) = {dispatch[1].entry_count}
                     /\ \A j \in 0..(dispatch[1].entry_count - 1) :
                           dispatch'[1].entries[j] = dispatch[1].entries[j]]_vars

\* C33 witness: kind 1 was registered three times and unregistered twice:
\* the table is full with two inactive entries and one active entry, all of
\* kind 1, and kind 2, never registered, has no slot left.
C33_Witness ==
    /\ dispatch[1].entry_count = dispatch[1].capacity
    /\ \A i \in 0..(dispatch[1].entry_count - 1) :
          dispatch[1].entries[i].frequency_id = 1
    /\ ActiveEntries(dispatch[1], 1) = {2}
    /\ ActiveEntries(dispatch[1], 2) = {}

(* --------------------------- dispatch statistics ----------------------- *)
\* a reset that leaves the misses standing
dispatch_reset_stats_keeping_misses(table) ==
    [table EXCEPT !.lookup_count = 0, !.hit_count = 0]

\* dispatch_reset_stats(table)
dispatch_reset_stats(table) ==
    [table EXCEPT !.lookup_count = 0, !.hit_count = 0, !.miss_count = 0]

\* dispatch_reset_stats(table of a), by a program that resets while its
\* handlers have run at most MaxLookups times.
DispatchResetStats(a) ==
    /\ pc = "idle"
    /\ dispatch[a].agent_state.handler_calls <= MaxLookups
    /\ dispatch' = [dispatch EXCEPT ![a] = dispatch_reset_stats(@)]
    /\ ret' = 0
    /\ UNCHANGED <<sigVars, queueVars, routing, schedVars, obsVars, otherVars>>

\* A program that invokes the tables of both agents on signals of both kinds,
\* with payloads the guard of agent 2 rejects and passes, and resets the
\* statistics in between.
NextStats ==
    \/ \E k \in Kinds, p \in Payloads : SignalCreate(k, 1, p, 4)
    \/ \E a \in AgentIds, s \in SigIds : DispatchInvoke(a, s)
    \/ \E a \in AgentIds : DispatchResetStats(a)

SpecStats == Init /\ [][NextStats]_vars

\* C39: lookup_count = hit_count + miss_count on every table after any
\* dispatch_invoke and dispatch_reset_stats calls; an invoke raises
\* lookup_count by one and exactly one of hit_count and miss_count by one
\* (hit_count when an entry for the kind is registered, also when its guard
\* rejects the signal; miss_count otherwise, with or without a default
\* handler); a reset sets the three to 0.
C39_CountersConsistent ==
    /\ [](\A a \in AgentIds :
            dispatch[a].lookup_count = dispatch[a].hit_count + dispatch[a].miss_count)
    /\ [][\A a \in AgentIds :
            /\ \A s \in SigIds :
                 DispatchInvoke(a, s) =>
                   LET registered ==
                         dispatch_lookup_entry(dispatch[a], signals[s].frequency_id) >= 0
                   IN  /\ dispatch'[a].lookup_count = dispatch[a].lookup_count + 1
                       /\ dispatch'[a].hit_count =
                            dispatch[a].hit_count + (IF registered THEN 1 ELSE 0)
                       /\ dispatch'[a].miss_count =
                            dispatch[a].miss_count + (IF registered THEN 0 ELSE 1)
                       /\ ret' = DISPATCH_ERR_GUARD_FAILED => registered
                       /\ ret' = DISPATCH_ERR_NO_HANDLER => ~registered
            /\ DispatchResetStats(a) =>
                 /\ dispatch'[a].lookup_count = 0
                 /\ dispatch'[a].hit_count = 0
                 /\ dispatch'[a].miss_count = 0]_vars

\* Agent 2's handler has run twice and its table counts one lookup, a hit,
\* since the reset; agent 1's table counts two lookups since its reset, a
\* hit and a miss served by the default handler, and three handler runs.
C39_Witness ==
    /\ dispatch[2].agent_state.handler_calls = 2
    /\ dispatch[2].lookup_count = 1
    /\ dispatch[2].hit_count = 1
    /\ dispatch[1].agent_state.handler_calls = 3
    /\ dispatch[1].lookup_count = 2
    /\ dispatch[1].hit_count = 1
    /\ dispatch[1].miss_count = 1

(* --------------------------- mailbox teardown -------------------------- *)
\* signal_queue_destroy(queue of a); the mailbox is not used afterwards.
MailboxDestroy(a) ==
    /\ pc = "idle"
    /\ a \notin destroyed
    /\ \E st \in {signal_queue_destroy([signals |-> signals, queues |-> queues,
                                       pending |-> pending], a)} :
        /\ signals' = st.signals
        /\ queues' = st.queues
        /\ pending' = st.pending
    /\ destroyed' = destroyed \cup {a}
    /\ ret' = 0
    /\ burst' = Burst(queues')
    /\ last_run' = NoRun
    /\ UNCHANGED <<sig_created, held, ref_age, queue_age, routing, dispatch,
                   schedVars, cycle_start, runCyclesVars, topoVars, routes_added,
                   g_heap, leases, envelope, used_mark, heap_calls, mailbox,
                   requested>>

\* A program that creates signals, passes them through its mailboxes and
\* destroys the mailboxes.
NextDestroy ==
    \/ \E k \in {1} : SignalCreate(k, 1, 5, 4)
    \/ \E s \in SigIds : SignalFree(s)
    \/ \E a \in AgentIds \ destroyed, s \in SigIds : Enqueue(a, s)
    \/ \E a \in AgentIds \ destroyed : Dequeue(a)
    \/ \E a \in AgentIds : MailboxDestroy(a)

SpecDestroy == Init /\ [][NextDestroy]_vars

\* Slots of mailbox a that reference signal s.
SlotsIn(a, s) == Cardinality(Occurrences(Contents(a), s))

\* C34: signal_queue_destroy empties the mailbox, counting every reference
\* it takes out; a signal referenced only by slots of that mailbox is freed,
\* header and owned payload once each; a signal with references elsewhere
\* stays live with ref_count lowered by the slots that held it; a signal the
\* mailbox did not hold is not touched.
C34_DestroyReleasesQueued ==
    [][\A a \in AgentIds :
        MailboxDestroy(a) =>
          /\ queues'[a].count = 0
          /\ queues'[a].total_dequeued
                = Add32(queues[a].total_dequeued, queues[a].count)
          /\ \A s \in SigIds :
                IF SlotsIn(a, s) = 0 THEN signals'[s] = signals[s]
                ELSE IF held[s] + Slots(s) - SlotsIn(a, s) = 0
                THEN /\ signals'[s].hdr_frees = signals[s].hdr_frees + 1
                     /\ signals'[s].payload_frees = signals[s].payload_frees
                           + (IF SIGNAL_FLAG_OWNS_PAYLOAD \in signals[s].flags
                              THEN 1 ELSE 0)
                     /\ signals'[s].ref_count = 0
                ELSE /\ signals'[s].hdr_frees = signals[s].hdr_frees
                     /\ signals'[s].payload_frees = signals[s].payload_frees
                     /\ signals'[s].ref_count
                           = signals[s].ref_count - SlotsIn(a, s)
                     /\ signals'[s].ref_count > 0
      ]_vars

\* C34 witness: mailbox 1 was destroyed while it held two references, and
\* mailbox 2 keeps its own: one signal was freed by the destroy and another
\* survives it in mailbox 2.
C34_Witness ==
    /\ destroyed = {1}
    /\ queues[1].count = 0
    /\ \E s, d \in SigIds :
          /\ s # d
          /\ signals[s].hdr_frees = 1 /\ held[s] = 0
          /\ Live(d) /\ SlotsIn(2, d) = 1 /\ held[d] = 0
          /\ signals[d].ref_count = 1

(* ----------------------- resolving cached mailboxes -------------------- *)
\* The routes a program adds for agent 2 after the table was built, and
\* their destinations; agent 3 is in no registry.
ResolveKeys == {2} \X Kinds
ResolveDestLists == {<<1>>, <<2, 1>>, <<3, 1>>}

\* routing_resolve_queues(table, agents)
RoutingResolve ==
    /\ pc = "idle"
    /\ routing' = routing_resolve_queues(routing, Registry)
    /\ UNCHANGED <<sigVars, queueVars, dispatch, schedVars, obsVars,
                   runCyclesVars, topoVars, routes_added, heapVars>>
    /\ UNCHANGED ret

NextResolve ==
    \/ RoutingResolve
    \/ \E key \in ResolveKeys, dests \in ResolveDestLists : RoutingAddEntry(key, dests)
    \/ \E k \in Kinds, o \in AgentIds : EmitSignal(k, o, 5, 4)

SpecResolve == Init /\ [][NextResolve]_vars

\* What routing_broadcast of a new signal of (kind, origin) does with table:
\* the mailboxes after it and the number of deliveries it returns.
DeliveredBy(table, kind, origin) ==
    LET s  == sig_created + 1
        st == routing_broadcast(
                [signals |-> signal_create(signals, s, kind, origin, 5, 4),
                 queues |-> queues, routing |-> table, pending |-> pending,
                 delivered |-> 0],
                s, Registry)
    IN  [queues |-> st.queues, delivered |-> st.delivered]

\* C35: after routing_resolve_queues a second call with the same registry
\* changes no entry's cached mailbox pointers, and a routing_broadcast after
\* the second call delivers to the same mailboxes as one after the first.
C35_ResolveIdempotent ==
    [][RoutingResolve =>
        LET twice == routing_resolve_queues(routing', Registry)
        IN  /\ \A i \in DOMAIN routing'.entries :
                 twice.entries[i].dest_queues = routing'.entries[i].dest_queues
            /\ twice = routing'
            /\ sig_created < MaxSignals =>
                 \A k \in Kinds, o \in AgentIds :
                    DeliveredBy(twice, k, o) = DeliveredBy(routing', k, o)]_vars

\* A route of agent 2 to agents 2 and 1 has both mailboxes cached although
\* no signal of agent 2 was sent, agent 1's signal of kind 1 is in agent 2's
\* mailbox, and a route names a destination outside the registry.
C35_Witness ==
    /\ sig_created = 1
    /\ signals[1].source_agent_id = 1
    /\ queues[2].count = 1
    /\ \E i \in DOMAIN routing.entries :
         /\ routing.entries[i].source_agent_id = 2
         /\ routing.entries[i].dest_agent_ids = <<2, 1>>
         /\ routing.entries[i].dest_queues = <<2, 1>>
    /\ \E i \in DOMAIN routing.entries :
         /\ routing.entries[i].dest_agent_ids = <<3, 1>>
         /\ routing.entries[i].dest_queues = <<NULL, 1>>

\* C36: signal_queue_enqueue of a signal on an empty mailbox followed by
\* signal_queue_dequeue hands the same signal back, raises total_enqueued
\* and total_dequeued by one each (as uint32) and leaves the mailbox empty
\* with dropped_count and the flags as they were; the enqueue raises the
\* signal's ref_count by one and the dequeue leaves it there: only
\* signal_free lowers it again.
C36_EnqueueThenDequeue ==
    [][\A a \in AgentIds :
        /\ \A s \in SigIds :
             (Enqueue(a, s) /\ queues[a].count = 0) =>
               LET after == signal_queue_dequeue(queues'[a])
               IN  /\ ret' = SIGNAL_OK
                   /\ queues'[a].count = 1
                   /\ signals'[s].ref_count = signals[s].ref_count + 1
                   /\ signal_queue_dequeue_ret(queues'[a]) = s
                   /\ after.count = 0
                   /\ after.total_enqueued = Inc32(queues[a].total_enqueued)
                   /\ after.total_dequeued = Inc32(queues[a].total_dequeued)
                   /\ after.dropped_count = queues[a].dropped_count
                   /\ after.flags = queues[a].flags
                   /\ after.buffer = queues[a].buffer
        /\ Dequeue(a) =>
             /\ signals' = signals
             /\ queues'[a] = signal_queue_dequeue(queues[a])
             /\ ret' = signal_queue_dequeue_ret(queues[a])
             /\ queues[a].count = 1 =>
                  (queues'[a].count = 0 /\ ret' = pending[a][1])
        /\ \A s \in SigIds :
             (SignalFree(s) /\ signals[s].ref_count > 1) =>
               signals'[s].ref_count = signals[s].ref_count - 1]_vars

\* A mailbox that once rejected a signal, and whose lifetime counters have
\* wrapped, is empty after its third accepted signal was enqueued on the
\* empty ring and taken out again; the consumer holds the reference.
C36_Witness ==
    \E a \in AgentIds :
        /\ queue_age = -2
        /\ queues[a].count = 0
        /\ queues[a].total_enqueued = 1
        /\ queues[a].total_dequeued = 1
        /\ queues[a].dropped_count = 1
        /\ QUEUE_FLAG_OVERFLOW \in queues[a].flags
        /\ \E s \in SigIds : Live(s) /\ signals[s].ref_count = 2 /\ held[s] = 2

(* --------------------------- creating a mailbox ------------------------ *)
\* The capacities signal_queue_create is called with, as uint32: 0, small
\* ones, 600 (more than a heap of one page holds), 2^30 + 1, 2^31, 2^31 + 1
\* and 2^32 - 1.
Capacities ==
    {0, 1, 2, 3, 4, 5, 600, (INT32_MAX \div 2) + 2, (-INT32_MAX) - 1,
     -INT32_MAX, -1}

\* SignalQueue* q = signal_queue_create(c), the program's only mailbox once
\* a call has succeeded.
QueueCreate(c) ==
    /\ pc = "idle"
    /\ mailbox = NULL_STRUCT
    /\ heap_calls < MaxAllocs
    /\ \E r \in {signal_queue_create_heap(g_heap, c)} :
        /\ g_heap' = r.heap
        /\ mailbox' = r.queue
    /\ requested' = c
    /\ heap_calls' = heap_calls + 1
    /\ ret' = 0
    /\ UNCHANGED <<sigVars, queueVars, routing, dispatch, schedVars, obsVars,
                   runCyclesVars, topoVars, routes_added, destroyed, leases,
                   envelope, used_mark>>

\* signal_queue_enqueue(q, sig) by a caller that holds sig.
QueueEnqueue(s) ==
    /\ pc = "idle"
    /\ mailbox # NULL_STRUCT
    /\ Live(s) /\ held[s] > 0
    /\ mailbox.total_enqueued + mailbox.dropped_count < MaxTraffic
    /\ mailbox' = signal_queue_enqueue(mailbox, s)
    /\ signals' = IF signal_queue_enqueue_ret(mailbox, s) = SIGNAL_OK
                  THEN signal_ref(signals, s) ELSE signals
    /\ ret' = signal_queue_enqueue_ret(mailbox, s)
    /\ UNCHANGED <<sig_created, held, ref_age, queueVars, routing, dispatch,
                   schedVars, obsVars, runCyclesVars, topoVars, routes_added,
                   g_heap, leases, envelope, used_mark, heap_calls, destroyed,
                   requested>>

\* signal_queue_dequeue(q); the caller now holds what it returned.
QueueDequeue ==
    /\ pc = "idle"
    /\ mailbox # NULL_STRUCT
    /\ \E s \in {signal_queue_dequeue_ret(mailbox)} :
        /\ held' = IF s # NULL THEN [held EXCEPT ![s] = @ + 1] ELSE held
        /\ ret' = s
    /\ mailbox' = signal_queue_dequeue(mailbox)
    /\ UNCHANGED <<signals, sig_created, ref_age, queueVars, routing, dispatch,
                   schedVars, obsVars, runCyclesVars, topoVars, routes_added,
                   g_heap, leases, envelope, used_mark, heap_calls, destroyed,
                   requested>>

NextCreate ==
    \/ \E c \in Capacities : QueueCreate(c)
    \/ \E k \in {1} : SignalCreate(k, 1, 5, 4)
    \/ \E s \in SigIds : SignalFree(s)
    \/ \E s \in SigIds : QueueEnqueue(s)
    \/ QueueDequeue

SpecCreate == InitHeaps /\ [][NextCreate]_vars

\* The powers of two a uint32_t below 2^31 can be.
PowersOfTwo == {2 ^ k : k \in 0..30}

\* The smallest power of two that is at least c, 1 <= c <= 2^30.
RoundedUp(c) ==
    CHOOSE p \in PowersOfTwo : p >= c /\ \A q \in PowersOfTwo : q >= c => p <= q

\* The heap has unused room for the descriptor and a ring of n pointers.
RoomFor(n) == g_heap.current + SIGNAL_QUEUE_SIZE + 8 * n <= g_heap.end

C38_RefSaturates ==
    /\ [][\A s \in SigIds :
            (SignalRef(s) \/ \E a \in AgentIds : Enqueue(a, s) /\ ret' = SIGNAL_OK) =>
              /\ signals'[s].ref_count >= signals[s].ref_count
              /\ signals'[s].ref_count =
                    IF signals[s].ref_count = U16 - 1 THEN U16 - 1
                    ELSE signals[s].ref_count + 1]_vars
    /\ [](\A s \in SigIds : (Live(s) /\ held[s] > 0) => signals[s].ref_count > 0)

(* --------------------------- reuse of free blocks ---------------------- *)
\* A program that allocates blocks and frees them with the sizes it asked
\* for.
NextReuse ==
    \/ \E bytes \in AllocSizes : HeapAllocate(bytes)
    \/ \E block \in leases : HeapFree(block)

SpecReuse == InitHeaps /\ [][NextReuse]_vars

\* A request of r bytes as the heap counts it: r rounded up to a multiple of
\* 8, and 16 at least.
RoundedRequest(r) == IF r <= 16 THEN 16 ELSE 8 * ((r + 7) \div 8)

RECURSIVE ListBytes(_)
ListBytes(list) == IF list = <<>> THEN 0 ELSE Head(list).size + ListBytes(Tail(list))

\* Bytes below the allocation point that are neither in a block the program
\* holds (counted as it asked for them) nor in a block of the free list.
Stranded(h, held_blocks) ==
    (h.current - h.base) - ListBytes(h.free_list)
        - SumOver([b \in held_blocks |-> RoundedRequest(b.size)], held_blocks)

\* Positions of the free-list blocks that a rounded request of size fits in.
Fitting(list, size) == {i \in 1..Len(list) : list[i].size >= size}

====
